---- MODULE Spec2Model ----
(***************************************************************************)
(* Model of the quantitative risk engine of climate-digital-twin:          *)
(*   core/simulation.py  MonteCarloEngine (portfolio Monte Carlo)          *)
(*   core/financial.py   ClimateVasicek, PortfolioRiskCalculator           *)
(*                                                                         *)
(* Floating point numbers are modelled as fixed-point integers with SCALE  *)
(* units per 1.0 (x is stored as floor(x * SCALE)); NaN is a reserved      *)
(* value.  numpy's process-wide generator (np.random.seed / randn) is      *)
(* modelled as one global state `rng` advanced by every draw.              *)
(***************************************************************************)
EXTENDS Integers, Sequences, FiniteSets, TLC

(***************************************************************************)
(* Fixed-point arithmetic                                                  *)
(***************************************************************************)
SCALE == 10 ^ 4

\* IEEE NaN (0/0, mean of an empty slice): a value outside the fixed-point range.
NaN == 0 - 2 ^ 30

IsNaN(x) == x = NaN

\* a * b on floats
Mul(a, b) == (a * b) \div SCALE

\* a / b on numpy floats, b # 0
Div(a, b) == (a * SCALE) \div b

\* the float with integer value n
Fx(n) == n * SCALE

RECURSIVE ISqrtIter(_, _)
ISqrtIter(n, x) ==
    LET y == (x + n \div x) \div 2
    IN  IF y >= x THEN x ELSE ISqrtIter(n, y)

\* floor(sqrt(n)) on integers below 2^31, by Newton's iteration from above
ISqrt(n) == IF n <= 0 THEN 0 ELSE ISqrtIter(n, 46341)

\* np.sqrt on a non-negative float (large arguments keep within 32 bits)
Sqrt(x) == IF x <= 20 * SCALE THEN ISqrt(x * SCALE) ELSE ISqrt(x) * ISqrt(SCALE)

\* the floats inf and -inf
Inf == 2 ^ 30

NegInf == 1 - 2 ^ 30

IsFinite(x) == x \notin {NaN, Inf, NegInf}

\* a / b where a or b is a numpy float: no exception (a warning), 0 / 0 is
\* NaN and x / 0 is inf or -inf
FloatDiv(a, b) ==
    IF IsNaN(a) \/ IsNaN(b) THEN NaN
    ELSE IF b = 0 THEN (IF a = 0 THEN NaN ELSE IF a > 0 THEN Inf ELSE NegInf)
    ELSE (a * SCALE) \div b

\* a + b on floats that may be NaN
FloatAdd(a, b) == IF IsNaN(a) \/ IsNaN(b) THEN NaN ELSE a + b

\* a * b on floats that may be NaN
FloatMul(a, b) == IF IsNaN(a) \/ IsNaN(b) THEN NaN ELSE (a * b) \div SCALE

\* a - b on floats that may be NaN
FloatSub(a, b) == IF IsNaN(a) \/ IsNaN(b) THEN NaN ELSE a - b

\* np.sqrt on a float that may be NaN or negative (NaN, with a warning)
FloatSqrt(x) == IF IsNaN(x) \/ x < 0 THEN NaN ELSE Sqrt(x)

\* np.abs
FloatAbs(x) == IF IsNaN(x) THEN NaN ELSE IF x < 0 THEN 0 - x ELSE x

\* a < b on floats: False when either is NaN
FloatLess(a, b) == ~IsNaN(a) /\ ~IsNaN(b) /\ a < b

Abs(x) == IF x < 0 THEN 0 - x ELSE x

Min(a, b) == IF a <= b THEN a ELSE b

Max(a, b) == IF a >= b THEN a ELSE b

RECURSIVE SumSeq(_)
SumSeq(s) == IF s = <<>> THEN 0 ELSE Head(s) + SumSeq(Tail(s))

HasNaN(s) == \E i \in 1..Len(s) : IsNaN(s[i])

\* sum(...) of floats: NaN as soon as one term is NaN
FloatSum(s) == IF HasNaN(s) THEN NaN ELSE SumSeq(s)

\* np.mean: NaN for an empty array (a warning, no exception)
Mean(s) ==
    IF Len(s) = 0 \/ HasNaN(s) THEN NaN ELSE SumSeq(s) \div Len(s)

\* the array << F(1), ..., F(n) >>, element by element
RECURSIVE Tabulate(_, _)
Tabulate(F(_), n) == IF n = 0 THEN << >> ELSE Append(Tabulate(F, n - 1), F(n))

(***************************************************************************)
(* numpy's global random generator                                         *)
(***************************************************************************)
\* np.random.seed(seed): the generator state is a function of the seed alone
SeedState(seed) == (seed * 7919 + 1) % 65537

\* one draw advances the generator state
Lcg(s) == (75 * s + 74) % 65537

RECURSIVE Advance(_, _)
Advance(s, k) == IF k = 0 THEN s ELSE Advance(Lcg(s), k - 1)

\* the standard normal value a generator state yields (seven-point grid)
GaussTable == << 0 - 15000, 0 - 10000, 0 - 5000, 0, 5000, 10000, 15000 >>

Gauss(s) == GaussTable[(s % 7) + 1]

\* np.random.randn(k) drawn from state s: the k values, in draw order
Randn(s, k) == Tabulate(LAMBDA i : Gauss(Advance(s, i)), k)

\* what a call returned, without the generator state it left behind
Returned(r) == [k \in DOMAIN r \ {"rng"} |-> r[k]]

(***************************************************************************)
(* core/simulation.py: MonteCarloEngine                                    *)
(***************************************************************************)
\* Daily steps per year: n_steps = time_horizon * 252 and dt = 1 / 252 in the
\* source.  The model bounds the length of the daily loop: a year has
\* StepsPerYear steps and dt = 1 / StepsPerYear.
StepsPerYear == 2

\* hazard_type = "flood", the default of run_simulation
DefaultHazardType == "flood"

\* SimulationConfig defaults other than those the model varies
DefaultConfidence == 9500

DefaultClimateCorrelation == 2500

\* sum(a.value for a in assets)
GetTotalValue(assets) == SumSeq(Tabulate(LAMBDA i : assets[i].value, Len(assets)))

\* a matrix with correlation_factor itself off the diagonal
BuildCorrelationMatrixDirect(n_assets, correlation_factor) ==
    [i \in 1..n_assets |->
        [j \in 1..n_assets |-> IF i = j THEN Fx(1) ELSE correlation_factor]]

\* _build_correlation_matrix: 1 on the diagonal, 1 - correlation_factor elsewhere
BuildCorrelationMatrix(n_assets, correlation_factor) ==
    IF n_assets = 1
    THEN << << Fx(1) >> >>
    ELSE [i \in 1..n_assets |->
            [j \in 1..n_assets |->
                IF i = j THEN Fx(1) ELSE Fx(1) - correlation_factor]]

\* np.eye(n)
Eye(n) == [i \in 1..n |-> [j \in 1..n |-> IF i = j THEN Fx(1) ELSE 0]]

RECURSIVE DotPrefix(_, _, _)
DotPrefix(u, v, k) ==
    IF k = 0 THEN 0 ELSE Mul(u[k], v[k]) + DotPrefix(u, v, k - 1)

\* np.linalg.cholesky, entry by entry in row-major order of the lower
\* triangle; ok = FALSE is LinAlgError (a pivot that is not positive)
RECURSIVE CholFill(_, _, _, _)
CholFill(A, L, i, j) ==
    IF i > Len(A)
    THEN [ok |-> TRUE, L |-> L]
    ELSE LET s == DotPrefix(L[i], L[j], j - 1)
         IN  IF i = j
             THEN IF A[i][i] - s <= 0
                  THEN [ok |-> FALSE, L |-> L]
                  ELSE CholFill(A, [L EXCEPT ![i][i] = Sqrt(A[i][i] - s)], i + 1, 1)
             ELSE CholFill(A, [L EXCEPT ![i][j] = Div(A[i][j] - s, L[j][j])], i, j + 1)

Cholesky(A) ==
    CholFill(A, [i \in 1..Len(A) |-> [j \in 1..Len(A) |-> 0]], 1, 1)

\* try: L = cholesky(corr_matrix)  except LinAlgError: L = eye(n_assets)
CholeskyFactor(n_assets, correlation_factor) ==
    LET c == Cholesky(BuildCorrelationMatrix(n_assets, correlation_factor))
    IN  IF c.ok THEN c.L ELSE Eye(n_assets)

\* time_factor = sqrt(step / n_steps)
TimeFactor(step, n_steps) == Sqrt((step * SCALE) \div n_steps)

\* sqrt(dt), dt = 1 / 252
SqrtDt == Sqrt(SCALE \div StepsPerYear)

\* correlated_shocks[i, s] = (L @ z.T)[i, s], z = randn(n_sims, n_assets)
\* drawn row by row from generator state rng
CorrelatedShock(L, rng, n_assets, i, s) ==
    DotPrefix(L[i],
              Tabulate(LAMBDA k : Gauss(Advance(rng, (s - 1) * n_assets + k)), n_assets),
              n_assets)

\* market_shock = correlated * sqrt(dt) * 0.1 * time_factor
MarketShock(correlated, time_factor) ==
    Mul(Mul(Mul(correlated, SqrtDt), 1000), time_factor)

\* idiosyncratic_shock =
\*   correlated * sqrt(1 - correlation_factor) * sqrt(dt) * 0.05 * randn
IdiosyncraticShock(correlated, correlation_factor, draw) ==
    FloatMul(FloatMul(FloatMul(FloatMul(correlated,
                                        FloatSqrt(Fx(1) - correlation_factor)),
                               SqrtDt), 500), draw)

\* beta_effect = climate_beta * climate_factor * time_factor * climate_shock
BetaEffect(climate_beta, climate_factor, time_factor, climate_shock) ==
    Mul(Mul(Mul(climate_beta, climate_factor), time_factor), climate_shock)

\* damage_ratio * climate_factor * time_factor
DamageDrag(damage_ratio, climate_factor, time_factor) ==
    Mul(Mul(damage_ratio, climate_factor), time_factor)

\* total_shock of one asset, one simulation index, one step
TotalShock(asset, cfg, climate_factor, time_factor, correlated, climate_shock, draw) ==
    FloatAdd(IdiosyncraticShock(correlated, cfg.correlation_factor, draw),
             MarketShock(correlated, time_factor)
             + BetaEffect(asset.climate_beta, climate_factor, time_factor, climate_shock)
             - DamageDrag(asset.damage_ratio, climate_factor, time_factor))

\* an update that adds the shock to the previous value
UpdatedValueAdditive(previous_value, total_shock) ==
    FloatAdd(previous_value, total_shock)

\* asset_values[id][:, step] = previous_values * (1 + total_shock) (lines
\* 157-161)
UpdatedValue(previous_value, total_shock) ==
    FloatMul(previous_value, FloatAdd(Fx(1), total_shock))

\* The per-asset loop of one step (lines 110-161).  rngz is the generator
\* state before z was drawn, rnga the state before asset i draws its climate
\* shock; prev and cur are the columns step-1 and step of asset_values,
\* keyed by asset_id.  Returns the generator state and column after the loop.
RECURSIVE AssetLoop(_, _, _, _, _, _, _, _, _, _)
AssetLoop(cfg, assets, climate_factor, L, time_factor, rngz, rnga, prev, cur, i) ==
    IF i > Len(assets)
    THEN [rng |-> rnga, col |-> cur]
    ELSE LET n == cfg.n_simulations
             asset == assets[i]
             climate_shock == Randn(rnga, n)
             draw == Randn(Advance(rnga, n), n)
             newvals ==
                 Tabulate(LAMBDA s :
                     UpdatedValue(prev[asset.asset_id][s],
                                  TotalShock(asset, cfg, climate_factor, time_factor,
                                             CorrelatedShock(L, rngz, Len(assets), i, s),
                                             climate_shock[s], draw[s])), n)
         IN  AssetLoop(cfg, assets, climate_factor, L, time_factor, rngz,
                       Advance(rnga, 2 * n), prev,
                       (asset.asset_id :> newvals) @@ cur, i + 1)

\* a portfolio column that keeps the initial total instead of summing the
\* assets' current values
PortfolioColumnInitialTotal(assets, col, n_sims) ==
    Tabulate(LAMBDA s : GetTotalValue(assets), n_sims)

\* portfolio_values[sim, step] = sum(asset_values[a.asset_id][sim, step] for a in assets)
PortfolioColumn(assets, col, n_sims) ==
    Tabulate(LAMBDA s :
        FloatSum(Tabulate(LAMBDA i : col[assets[i].asset_id][s], Len(assets))), n_sims)

AssetIds(assets) == {assets[i].asset_id : i \in 1..Len(assets)}

\* One pass of the daily loop body (lines 106-168) for `step`.  st.rng is the
\* generator state; st.asset_cols[t+1] and st.portfolio_cols[t+1] are column
\* t of asset_values and portfolio_values.
StepOnce(cfg, assets, climate_factor, L, step, st) ==
    CHOOSE out \in
        { [rng |-> r.rng,
           asset_cols |-> Append(st.asset_cols, r.col),
           portfolio_cols |->
               Append(st.portfolio_cols,
                      PortfolioColumn(assets, r.col, cfg.n_simulations))] :
            r \in { AssetLoop(cfg, assets, climate_factor, L,
                              TimeFactor(step, cfg.time_horizon * StepsPerYear),
                              st.rng,
                              Advance(st.rng, cfg.n_simulations * Len(assets)),
                              st.asset_cols[step], << >>, 1) } } : TRUE

\* for step in range(lo, hi + 1), in order: the first half of the range, then
\* the second half from the state the first half leaves
RECURSIVE StepLoop(_, _, _, _, _, _, _)
StepLoop(cfg, assets, climate_factor, L, lo, hi, st) ==
    IF lo > hi
    THEN st
    ELSE IF lo = hi
         THEN StepOnce(cfg, assets, climate_factor, L, lo, st)
         ELSE CHOOSE out \in
                  { StepLoop(cfg, assets, climate_factor, L, (lo + hi) \div 2 + 1, hi, mid) :
                      mid \in { StepLoop(cfg, assets, climate_factor, L, lo, (lo + hi) \div 2, st) } } : TRUE

\* Column 0 of asset_values: the initialisation loop of lines 86-91, in list
\* order (a later asset with the same asset_id replaces the earlier array).
RECURSIVE InitAssetColumn(_, _, _, _)
InitAssetColumn(assets, n_sims, col, i) ==
    IF i > Len(assets)
    THEN col
    ELSE InitAssetColumn(assets, n_sims,
             (assets[i].asset_id :> Tabulate(LAMBDA s : assets[i].value, n_sims)) @@ col,
             i + 1)

\* The initialisation and the daily loop of run_simulation (lines 78-91 and
\* 102-168) from generator state rng, with L the factor applied to the shocks
PathsFrom(rng, cfg, assets, climate_factor, L) ==
    StepLoop(cfg, assets, climate_factor, L,
             1, cfg.time_horizon * StepsPerYear,
             [rng |-> rng,
              asset_cols |-> << InitAssetColumn(assets, cfg.n_simulations, << >>, 1) >>,
              portfolio_cols |->
                  << Tabulate(LAMBDA s : GetTotalValue(assets), cfg.n_simulations) >>])

\* The paths of run_simulation (lines 78-168) from generator state rng
SimulatePaths(rng, cfg, assets, climate_factor) ==
    PathsFrom(rng, cfg, assets, climate_factor,
              CholeskyFactor(Len(assets), cfg.correlation_factor))

\* np.std: the population standard deviation
Std(s) ==
    IF IsNaN(Mean(s))
    THEN NaN
    ELSE Sqrt(Mean(Tabulate(LAMBDA i : Mul(s[i] - Mean(s), s[i] - Mean(s)), Len(s))))

\* np.sort order: ascending, NaN last
SortLeq(a, b) == IsNaN(b) \/ (~IsNaN(a) /\ a <= b)

RECURSIVE Insert(_, _)
Insert(sorted, v) ==
    IF sorted = << >>
    THEN << v >>
    ELSE IF SortLeq(v, Head(sorted))
         THEN << v >> \o sorted
         ELSE << Head(sorted) >> \o Insert(Tail(sorted), v)

RECURSIVE Sort(_)
Sort(s) == IF s = << >> THEN << >> ELSE Insert(Sort(Tail(s)), Head(s))

\* np.percentile(a, q) of a non-empty array, linear interpolation between the
\* order statistics at position q / 100 * (n - 1)
Percentile(a, q) ==
    IF HasNaN(a)
    THEN NaN
    ELSE LET sorted == Sort(a)
             pos == q * (Len(a) - 1)
             lo == pos \div 100 + 1
             hi == Min(lo + 1, Len(a))
         IN  sorted[lo] + ((sorted[hi] - sorted[lo]) * (pos % 100)) \div 100

\* np.mean(returns <= threshold): entries at the threshold counted too
FractionAtOrBelow(returns, threshold) ==
    Mean(Tabulate(LAMBDA i : IF FloatLess(threshold, returns[i]) \/ IsNaN(returns[i])
                             THEN 0 ELSE Fx(1),
                  Len(returns)))

\* np.mean(returns < threshold): the fraction of entries below the threshold
FractionBelow(returns, threshold) ==
    Mean(Tabulate(LAMBDA i : IF FloatLess(returns[i], threshold) THEN Fx(1) ELSE 0,
                  Len(returns)))

\* _calculate_risk_metrics (lines 274-337).  status "IndexError" is
\* sorted_returns[var_idx] with var_idx outside the array.
CalculateRiskMetrics(returns, initial_values, confidence_level) ==
    LET n == Len(returns)
        var_percentile == Mul(Fx(1) - confidence_level, Fx(100))
        sorted_returns == Sort(returns)
        var_idx == (Div(var_percentile, Fx(100)) * n) \div SCALE
        es_idx == (5 * n) \div 100
    IN  IF var_idx + 1 > n \/ var_idx + n < 0
        THEN [status |-> "IndexError"]
        ELSE LET var_value == sorted_returns[IF var_idx >= 0 THEN var_idx + 1
                                             ELSE n + var_idx + 1]
                 expected_shortfall == Mean(SubSeq(sorted_returns, 1, es_idx))
                 mean_r == Mean(returns)
                 std_r == Std(returns)
                 z == [i \in 1..n |-> FloatDiv(FloatSub(returns[i], mean_r), std_r)]
             IN  [status |-> "ok",
                  value_at_risk |-> var_value,
                  value_at_risk_dollar |-> FloatMul(FloatAbs(var_value), Mean(initial_values)),
                  expected_shortfall |-> expected_shortfall,
                  expected_shortfall_dollar |->
                      FloatMul(FloatAbs(expected_shortfall), Mean(initial_values)),
                  probability_of_loss |-> FractionBelow(returns, 0),
                  probability_of_25pct_loss |-> FractionBelow(returns, 0 - 2500),
                  probability_of_50pct_loss |-> FractionBelow(returns, 0 - 5000),
                  probability_of_75pct_loss |-> FractionBelow(returns, 0 - 7500),
                  confidence_level |-> confidence_level,
                  volatility_annualized |-> FloatMul(std_r, Sqrt(Fx(252))),
                  skewness |->
                      IF n > 2 /\ FloatLess(0, std_r)
                      THEN Mean(Tabulate(LAMBDA i : Mul(Mul(z[i], z[i]), z[i]), n))
                      ELSE 0,
                  kurtosis |->
                      IF n > 3 /\ FloatLess(0, std_r)
                      THEN Mean(Tabulate(LAMBDA i :
                               Mul(Mul(Mul(z[i], z[i]), z[i]), z[i]), n)) - Fx(3)
                      ELSE 0]

\* np.min and np.max of a non-empty array: NaN when an entry is NaN
ArrayMin(a) == IF HasNaN(a) THEN NaN ELSE Sort(a)[1]

ArrayMax(a) == IF HasNaN(a) THEN NaN ELSE Sort(a)[Len(a)]

\* mean, std and percentiles of an array, as reported in final_distribution
\* and return_distribution
Distribution(a) ==
    [mean |-> Mean(a), std |-> Std(a),
     percentile_5 |-> Percentile(a, 5), percentile_25 |-> Percentile(a, 25),
     percentile_50 |-> Percentile(a, 50), percentile_75 |-> Percentile(a, 75),
     percentile_95 |-> Percentile(a, 95)]

\* returns = (final_values - initial_values) / initial_values (lines 170-173)
Returns(portfolio_cols, n_sims) ==
    Tabulate(LAMBDA s :
        FloatDiv(FloatSub(portfolio_cols[Len(portfolio_cols)][s], portfolio_cols[1][s]),
                 portfolio_cols[1][s]), n_sims)

\* The dictionary run_simulation returns (lines 176-212) for the simulated
\* paths and their returns, or the exception _calculate_risk_metrics raises.
SimulationResult(cfg, climate_factor, hazard_type, paths, returns) ==
    CHOOSE out \in
        { IF metrics.status # "ok"
          THEN [status |-> metrics.status, rng |-> paths.rng]
          ELSE [status |-> "ok",
                rng |-> paths.rng,
                initial_value |-> Mean(paths.portfolio_cols[1]),
                simulation_config |->
                    [n_simulations |-> cfg.n_simulations,
                     time_horizon |-> cfg.time_horizon,
                     confidence_level |-> cfg.confidence_level,
                     climate_factor |-> climate_factor,
                     hazard_type |-> hazard_type],
                final_distribution |->
                    [min |-> ArrayMin(paths.portfolio_cols[Len(paths.portfolio_cols)]),
                     max |-> ArrayMax(paths.portfolio_cols[Len(paths.portfolio_cols)])]
                    @@ Distribution(paths.portfolio_cols[Len(paths.portfolio_cols)]),
                return_distribution |-> Distribution(returns),
                return_distribution_array |-> returns,
                risk_metrics |-> metrics,
                portfolio_paths |-> paths.portfolio_cols,
                asset_paths |-> paths.asset_cols,
                n_successful_simulations |-> cfg.n_simulations] :
            metrics \in { CalculateRiskMetrics(returns, paths.portfolio_cols[1],
                                               cfg.confidence_level) } } : TRUE

\* run_simulation (lines 61-212) called with the global generator in state
\* rng.  The record holds the generator state the call leaves and either the
\* returned dictionary (status "ok") or the exception that ends the call.
\* portfolio_paths[t + 1][s] is portfolio_values[s, t];
\* asset_paths[t + 1][id][s] is asset_values[id][s, t].
RunSimulationFrom(rng, cfg, assets, climate_factor, hazard_type) ==
    CHOOSE out \in
        { SimulationResult(cfg, climate_factor, hazard_type, paths,
                           Returns(paths.portfolio_cols, cfg.n_simulations)) :
            paths \in { SimulatePaths(rng, cfg, assets, climate_factor) } } : TRUE

\* the summary run_scenario_comparison keeps of one run (lines 238-248)
ScenarioSummary(climate_factor, r) ==
    [climate_factor |-> climate_factor,
     mean_return |-> r.return_distribution.mean,
     std_return |-> r.return_distribution.std,
     var_5 |-> r.return_distribution.percentile_5,
     expected_shortfall |-> r.risk_metrics.expected_shortfall,
     probability_of_loss |-> r.risk_metrics.probability_of_loss,
     probability_of_50pct_loss |-> r.risk_metrics.probability_of_50pct_loss,
     mean_final_value |-> r.final_distribution.mean,
     worst_case_5pct |-> r.final_distribution.percentile_5]

\* run_scenario_comparison (lines 214-250): one run_simulation per scenario,
\* in dictionary order, each from the generator state the previous one left.
\* scenarios is the dictionary's items: a sequence of [name, climate_factor].
\* Returns the generator state and results (by scenario name), or the exception
\* a run_simulation raised.
RECURSIVE ScenarioLoop(_, _, _, _, _, _)
ScenarioLoop(rng, cfg, assets, scenarios, results, i) ==
    IF i > Len(scenarios)
    THEN [status |-> "ok", rng |-> rng, results |-> results]
    ELSE CHOOSE out \in
             { IF r.status # "ok"
               THEN [status |-> r.status, rng |-> r.rng]
               ELSE ScenarioLoop(r.rng, cfg, assets, scenarios,
                        (scenarios[i].name :>
                            ScenarioSummary(scenarios[i].climate_factor, r))
                        @@ results,
                        i + 1) :
                 r \in { RunSimulationFrom(rng, cfg, assets,
                                           scenarios[i].climate_factor,
                                           scenarios[i].name) } } : TRUE

RunScenarioComparisonFrom(rng, cfg, assets, scenarios) ==
    ScenarioLoop(rng, cfg, assets, scenarios, << >>, 1)

(***************************************************************************)
(* core/financial.py: ClimateVasicek                                       *)
(***************************************************************************)
\* ClimateVasicek.__init__ (lines 92-122): the model parameters
ClimateVasicekInit(base_pd, base_lgd, climate_beta) ==
    [base_pd |-> base_pd,
     base_lgd |-> base_lgd,
     climate_beta |-> climate_beta,
     correlation |-> 3000,
     speed_of_mean_reversion |-> 500,
     long_run_mean |-> base_pd,
     volatility |-> 1200,
     climate_correlation |-> 2500]

\* an adjustment whose multipliers are not capped
CalculateClimateAdjustmentUncapped(m, physical_damage_ratio, pd_increase_cap, lgd_increase_cap) ==
    [pd_multiplier |-> Fx(1) + Mul(m.climate_beta, physical_damage_ratio),
     lgd_multiplier |-> Fx(1) + Mul(5000, physical_damage_ratio),
     climate_factor |-> Mul(m.climate_beta, physical_damage_ratio),
     adjusted_pd |->
         Mul(m.base_pd, Fx(1) + Mul(m.climate_beta, physical_damage_ratio)),
     adjusted_lgd |->
         Min(Fx(1), Mul(m.base_lgd, Fx(1) + Mul(5000, physical_damage_ratio)))]

\* an adjustment under which damage lowers the loss given default
CalculateClimateAdjustmentLgdRelief(m, physical_damage_ratio, pd_increase_cap, lgd_increase_cap) ==
    [pd_multiplier |->
         Min(pd_increase_cap, Fx(1) + Mul(m.climate_beta, physical_damage_ratio)),
     lgd_multiplier |-> Fx(1) - Mul(5000, physical_damage_ratio),
     climate_factor |-> Mul(m.climate_beta, physical_damage_ratio),
     adjusted_pd |->
         Mul(m.base_pd,
             Min(pd_increase_cap, Fx(1) + Mul(m.climate_beta, physical_damage_ratio))),
     adjusted_lgd |->
         Min(Fx(1), Mul(m.base_lgd, Fx(1) - Mul(5000, physical_damage_ratio)))]

\* calculate_climate_adjustment (lines 124-159)
CalculateClimateAdjustment(m, physical_damage_ratio, pd_increase_cap, lgd_increase_cap) ==
    LET pd_multiplier ==
            Min(pd_increase_cap, Fx(1) + Mul(m.climate_beta, physical_damage_ratio))
        lgd_multiplier ==
            Min(lgd_increase_cap, Fx(1) + Mul(5000, physical_damage_ratio))
    IN  [pd_multiplier |-> pd_multiplier,
         lgd_multiplier |-> lgd_multiplier,
         climate_factor |-> Mul(m.climate_beta, physical_damage_ratio),
         adjusted_pd |-> Mul(m.base_pd, pd_multiplier),
         adjusted_lgd |-> Min(Fx(1), Mul(m.base_lgd, lgd_multiplier))]

\* the default caps of calculate_climate_adjustment
DefaultPdCap == 30000

DefaultLgdCap == 15000

\* np.clip(x, 0.0001, 0.9999)
PdMin == 1

PdMax == 9999

Clip(x, lo, hi) == IF x < lo THEN lo ELSE IF x > hi THEN hi ELSE x

\* the generator left as the caller set it: no np.random.seed in the call
PdKeepState(rng, random_seed) == rng

\* np.random.seed(random_seed) at line 182: the generator state the PD
\* simulation draws from, whatever state the generator was in
PdSeedState(rng, random_seed) == SeedState(random_seed)

\* a climate effect that falls as climate_factor rises
ClimateEffectReversed(m, climate_factor, climate_shock) ==
    Mul(m.climate_beta, climate_shock - climate_factor)

\* climate_effect = self.climate_beta * (climate_factor + climate_shocks[:, t])
ClimateEffect(m, climate_factor, climate_shock) ==
    Mul(m.climate_beta, climate_factor + climate_shock)

\* One pass of the loop body of lines 203-230 for step t.  st.rng is the
\* generator state; st.pd_cols[t+1] and st.climate_cols[t+1] are column t of
\* pd_paths and climate_shocks.
PdStepOnce(m, L, climate_factor, n_simulations, t, st) ==
    LET dt == SCALE \div StepsPerYear
        w(row, s) ==
            DotPrefix(L[row],
                      << Gauss(Advance(st.rng, 2 * (s - 1) + 1)),
                         Gauss(Advance(st.rng, 2 * (s - 1) + 2)) >>, 2)
        shocks == Tabulate(LAMBDA s :
                      st.climate_cols[t][s]
                      + Mul(Mul(m.speed_of_mean_reversion, 0 - st.climate_cols[t][s]), dt)
                      + Mul(Sqrt(dt), w(2, s)), n_simulations)
        pds == Tabulate(LAMBDA s :
                   Clip(st.pd_cols[t][s]
                        + Mul(Mul(m.speed_of_mean_reversion,
                                  m.long_run_mean - st.pd_cols[t][s]), dt)
                        + Mul(Mul(Sqrt(dt), m.volatility), w(1, s))
                        + ClimateEffect(m, climate_factor, shocks[s]),
                        PdMin, PdMax), n_simulations)
    IN  [rng |-> Advance(st.rng, 2 * n_simulations),
         pd_cols |-> Append(st.pd_cols, pds),
         climate_cols |-> Append(st.climate_cols, shocks)]

\* for t in range(lo, hi + 1), in order
RECURSIVE PdStepLoop(_, _, _, _, _, _, _)
PdStepLoop(m, L, climate_factor, n_simulations, lo, hi, st) ==
    IF lo > hi
    THEN st
    ELSE IF lo = hi
         THEN PdStepOnce(m, L, climate_factor, n_simulations, lo, st)
         ELSE CHOOSE out \in
                  { PdStepLoop(m, L, climate_factor, n_simulations,
                               (lo + hi) \div 2 + 1, hi, mid) :
                      mid \in { PdStepLoop(m, L, climate_factor, n_simulations,
                                           lo, (lo + hi) \div 2, st) } } : TRUE

\* L = np.linalg.cholesky(corr_matrix) of lines 188-192
PdCholesky(m) ==
    Cholesky(<< << Fx(1), m.climate_correlation >>,
                << m.climate_correlation, Fx(1) >> >>).L

\* the dictionary of lines 235-250 for the simulated columns
PdResult(m, time_horizon, n_simulations, st) ==
    [status |-> "ok",
     rng |-> st.rng,
     base_pd |-> m.base_pd,
     adjusted_pd_distribution |-> st.pd_cols[Len(st.pd_cols)],
     percentile_99 |-> Percentile(st.pd_cols[Len(st.pd_cols)], 99),
     stressed_pd |-> Percentile(st.pd_cols[Len(st.pd_cols)], 99),
     monte_carlo_paths |-> st.pd_cols,
     n_simulations |-> n_simulations,
     time_horizon |-> time_horizon]
    @@ Distribution(st.pd_cols[Len(st.pd_cols)])

\* calculate_adjusted_pd_monte_carlo (lines 161-250), n_simulations >= 1,
\* called with the global generator in state rng.  monte_carlo_paths[t + 1][s]
\* is pd_paths[s, t].
PdMonteCarloFrom(rng, m, time_horizon, climate_factor, n_simulations, random_seed) ==
    CHOOSE out \in
        { PdResult(m, time_horizon, n_simulations, st) :
            st \in
              { PdStepLoop(m, PdCholesky(m), climate_factor, n_simulations,
                           1, time_horizon * StepsPerYear,
                           [rng |-> PdSeedState(rng, random_seed),
                            pd_cols |-> << Tabulate(LAMBDA s : m.base_pd,
                                                    n_simulations) >>,
                            climate_cols |-> << Tabulate(LAMBDA s : 0,
                                                         n_simulations) >>]) } } : TRUE

\* an expected loss that leaves the loss given default out
CalculateExpectedLossNoLgd(exposure, pd, lgd) == Mul(exposure, pd)

\* calculate_expected_loss (lines 252-271): exposure * pd * lgd
CalculateExpectedLoss(exposure, pd, lgd) == Mul(Mul(exposure, pd), lgd)

\* Python's None, the default of the correlation argument, as a value no float has
None == 0 - 2 ^ 29

\* corr = correlation or self.correlation: a correlation of 0 replaced too
CorrOrOwn(m, correlation) ==
    IF correlation = None \/ correlation = 0 THEN m.correlation ELSE correlation

\* corr = correlation if correlation is not None else self.correlation
Corr(m, correlation) == IF correlation = None THEN m.correlation ELSE correlation

\* calculate_unexpected_loss (lines 273-301):
\* exposure * sqrt(pd * lgd**2 * (1 - pd)) * sqrt(corr)
CalculateUnexpectedLossWith(m, exposure, pd, lgd, correlation) ==
    FloatMul(FloatMul(exposure,
                      FloatSqrt(Mul(Mul(pd, Mul(lgd, lgd)), Fx(1) - pd))),
             FloatSqrt(Corr(m, correlation)))

\* calculate_unexpected_loss with the correlation argument omitted
CalculateUnexpectedLoss(m, exposure, pd, lgd) ==
    CalculateUnexpectedLossWith(m, exposure, pd, lgd, None)

\* a table whose default is the 0.90 z-score
ZScoreDefaultLowest(confidence_level) ==
    CASE confidence_level = 9500 -> 16450
      [] confidence_level = 9900 -> 23300
      [] confidence_level = 9990 -> 30900
      [] OTHER -> 12800

\* the z-score table of calculate_capital_requirement, .get(level, 3.09)
ZScore(confidence_level) ==
    CASE confidence_level = 9000 -> 12800
      [] confidence_level = 9500 -> 16450
      [] confidence_level = 9900 -> 23300
      [] confidence_level = 9990 -> 30900
      [] OTHER -> 30900

\* calculate_capital_requirement (lines 303-338)
CalculateCapitalRequirement(unexpected_loss, confidence_level, capital_ratio) ==
    [unexpected_loss |-> unexpected_loss,
     base_capital |-> FloatMul(unexpected_loss, capital_ratio),
     adjusted_capital |->
         FloatDiv(FloatMul(FloatMul(unexpected_loss, capital_ratio),
                           ZScore(confidence_level)), 30900),
     confidence_level |-> confidence_level,
     z_score |-> ZScore(confidence_level),
     capital_ratio |-> capital_ratio]

\* the defaults of calculate_capital_requirement
DefaultCapitalConfidence == 9990

DefaultCapitalRatio == 800

\* random_seed = 42, the default of calculate_adjusted_pd_monte_carlo and of
\* SimulationConfig
DefaultSeed == 42

\* (stressed - base) / base * 100 if base > 0 else 0
IncreasePercentage(stressed, base) ==
    IF FloatLess(0, base) THEN FloatDiv(FloatSub(stressed, base), base) * 100 ELSE 0

\* the expected_loss and unexpected_loss entries of the result (lines 404-415)
LossEntry(base, stressed) ==
    [base |-> base,
     stressed |-> stressed,
     additional |-> FloatSub(stressed, base),
     increase_percentage |-> IncreasePercentage(stressed, base)]

\* the capital and summary entries of the result (lines 416-427)
CapitalEntries(adjustment, el, ul, base_capital, stressed_capital) ==
    [capital |->
         [base |-> base_capital.base_capital,
          stressed |-> stressed_capital.adjusted_capital,
          additional |-> FloatSub(stressed_capital.adjusted_capital,
                                  base_capital.base_capital),
          climate_buffer |-> FloatMul(stressed_capital.adjusted_capital, 1500)],
     summary |->
         [pd_multiplier |-> adjustment.pd_multiplier,
          lgd_multiplier |-> adjustment.lgd_multiplier,
          total_impact |->
              FloatSub(FloatAdd(FloatSub(el.stressed, el.base), ul.stressed), ul.base),
          capital_increase |-> FloatSub(stressed_capital.adjusted_capital,
                                        base_capital.base_capital)]]

\* The losses, capital and summary of lines 369-428 from the expected and
\* unexpected losses.
AnalysisEntries(adjustment, el, ul) ==
    [expected_loss |-> el, unexpected_loss |-> ul]
    @@ CapitalEntries(adjustment, el, ul,
                      CalculateCapitalRequirement(ul.base, DefaultCapitalConfidence,
                                                  DefaultCapitalRatio),
                      CalculateCapitalRequirement(ul.stressed, DefaultCapitalConfidence,
                                                  DefaultCapitalRatio))

\* an analysis whose stressed losses take the adjustment's adjusted_pd for the
\* stressed PD
AnalysisResultAdjustedPd(m, exposure, time_horizon, physical_damage_ratio, adjustment, pd_result) ==
    [status |-> "ok",
     rng |-> pd_result.rng,
     input |-> [exposure |-> exposure,
                time_horizon |-> time_horizon,
                physical_damage_ratio |-> physical_damage_ratio,
                base_pd |-> m.base_pd,
                base_lgd |-> m.base_lgd],
     climate_adjustment |-> adjustment,
     pd_analysis |->
         [base_pd |-> m.base_pd,
          stressed_pd |-> pd_result.stressed_pd,
          pd_increase_factor |-> FloatDiv(pd_result.stressed_pd, m.base_pd),
          pd_distribution |-> Returned(pd_result)]]
    @@ AnalysisEntries(
           adjustment,
           LossEntry(CalculateExpectedLoss(exposure, m.base_pd, m.base_lgd),
                     CalculateExpectedLoss(exposure, adjustment.adjusted_pd,
                                           adjustment.adjusted_lgd)),
           LossEntry(CalculateUnexpectedLoss(m, exposure, m.base_pd, m.base_lgd),
                     CalculateUnexpectedLoss(m, exposure, adjustment.adjusted_pd,
                                             adjustment.adjusted_lgd)))

\* Lines 369-428 of run_full_analysis for the adjustment and the Monte Carlo
\* result.  stressed_pd is a Python float (float(np.percentile(...)), line
\* 246), so stressed_pd / self.base_pd of line 401 raises ZeroDivisionError
\* when base_pd = 0.
AnalysisResult(m, exposure, time_horizon, physical_damage_ratio, adjustment, pd_result) ==
    IF m.base_pd = 0
    THEN [status |-> "ZeroDivisionError", rng |-> pd_result.rng]
    ELSE [status |-> "ok",
          rng |-> pd_result.rng,
          input |-> [exposure |-> exposure,
                     time_horizon |-> time_horizon,
                     physical_damage_ratio |-> physical_damage_ratio,
                     base_pd |-> m.base_pd,
                     base_lgd |-> m.base_lgd],
          climate_adjustment |-> adjustment,
          pd_analysis |->
              [base_pd |-> m.base_pd,
               stressed_pd |-> pd_result.stressed_pd,
               pd_increase_factor |-> Div(pd_result.stressed_pd, m.base_pd),
               pd_distribution |-> Returned(pd_result)]]
         @@ AnalysisEntries(
                adjustment,
                LossEntry(CalculateExpectedLoss(exposure, m.base_pd, m.base_lgd),
                          CalculateExpectedLoss(exposure, pd_result.stressed_pd,
                                                adjustment.adjusted_lgd)),
                LossEntry(CalculateUnexpectedLoss(m, exposure, m.base_pd, m.base_lgd),
                          CalculateUnexpectedLoss(m, exposure, pd_result.stressed_pd,
                                                  adjustment.adjusted_lgd)))

\* run_full_analysis (lines 340-428) called with the global generator in
\* state rng: the adjustment, the Monte Carlo call, then the result
RunFullAnalysisFrom(rng, m, exposure, time_horizon, physical_damage_ratio, n_simulations) ==
    CHOOSE out \in
        { AnalysisResult(m, exposure, time_horizon, physical_damage_ratio,
                         adjustment, pd_result) :
            adjustment \in
                { CalculateClimateAdjustment(m, physical_damage_ratio,
                                             DefaultPdCap, DefaultLgdCap) },
            pd_result \in
                { PdMonteCarloFrom(
                      rng, m, time_horizon,
                      CalculateClimateAdjustment(m, physical_damage_ratio,
                                                 DefaultPdCap,
                                                 DefaultLgdCap).climate_factor,
                      n_simulations, DefaultSeed) } } : TRUE

\* time_horizon = 10 of the run_full_analysis call in calculate_portfolio_risk
PortfolioTimeHorizon == 10

\* avg_correlation = 0.3 of calculate_portfolio_risk
AvgCorrelation == 3000

\* the default n_simulations = 10000 of run_full_analysis, bounded
DefaultNSimulations == 2

\* _calculate_concentration with the "high" threshold met at hhi = 0.25
CalculateConcentrationInclusive(risks) ==
    IF risks = << >> THEN [empty |-> TRUE]
    ELSE LET weights == Tabulate(LAMBDA i : risks[i].weight, Len(risks))
             hhi == SumSeq(Tabulate(LAMBDA i : Mul(weights[i], weights[i]), Len(risks)))
         IN  [empty |-> FALSE,
              max_weight |-> CHOOSE w \in {weights[i] : i \in 1..Len(weights)} :
                                 \A i \in 1..Len(weights) : weights[i] <= w,
              hhi |-> hhi,
              concentration_level |->
                  IF hhi >= 2500 THEN "high" ELSE IF hhi > 1500 THEN "medium" ELSE "low"]

\* _calculate_concentration (lines 541-554); {} for an empty list
CalculateConcentration(risks) ==
    IF risks = << >> THEN [empty |-> TRUE]
    ELSE LET weights == Tabulate(LAMBDA i : risks[i].weight, Len(risks))
             hhi == SumSeq(Tabulate(LAMBDA i : Mul(weights[i], weights[i]), Len(risks)))
         IN  [empty |-> FALSE,
              max_weight |-> CHOOSE w \in {weights[i] : i \in 1..Len(weights)} :
                                 \A i \in 1..Len(weights) : weights[i] <= w,
              hhi |-> hhi,
              concentration_level |->
                  IF hhi > 2500 THEN "high" ELSE IF hhi > 1500 THEN "medium" ELSE "low"]

\* the diversification factor without the avg_correlation term
DiversificationFactorNoCorrelation(n) ==
    IF n > 1 THEN Sqrt(Div(Fx(1), Fx(n))) ELSE Fx(1)

\* the diversification factor of calculate_portfolio_risk (lines 515-523)
DiversificationFactor(n) ==
    IF n > 1
    THEN Sqrt(Div(Fx(1), Fx(n)) + Mul(Div(Fx(n - 1), Fx(n)), AvgCorrelation))
    ELSE Fx(1)

\* the loop of calculate_portfolio_risk (lines 474-512) from exposure i on.
\* Exposure values are Python numbers, so exp_value / total_exposure raises
\* ZeroDivisionError when the total is 0.
RECURSIVE IndividualRisks(_, _, _, _, _)
IndividualRisks(rng, exposures, total_exposure, risks, i) ==
    IF i > Len(exposures) THEN [status |-> "ok", rng |-> rng, risks |-> risks]
    ELSE CHOOSE out \in
             { IF analysis.status # "ok"
               THEN [status |-> analysis.status, rng |-> analysis.rng, risks |-> risks]
               ELSE IF total_exposure = 0
               THEN [status |-> "ZeroDivisionError", rng |-> analysis.rng,
                     risks |-> risks]
               ELSE IndividualRisks(
                        analysis.rng, exposures, total_exposure,
                        Append(risks,
                               [exposure_id |-> exposures[i].asset_id,
                                value |-> exposures[i].value,
                                weight |-> Div(exposures[i].value, total_exposure),
                                expected_loss |-> analysis.expected_loss.additional,
                                unexpected_loss |-> analysis.unexpected_loss.additional,
                                capital_impact |-> analysis.capital.additional]),
                        i + 1) :
                 analysis \in
                     { RunFullAnalysisFrom(
                           rng,
                           ClimateVasicekInit(exposures[i].base_pd,
                                              exposures[i].base_lgd,
                                              exposures[i].climate_beta),
                           exposures[i].value, PortfolioTimeHorizon,
                           exposures[i].damage_ratio, DefaultNSimulations) } } : TRUE

\* the dictionary of lines 525-539 for the individual risks r
PortfolioResult(exposures, r) ==
    IF r.status # "ok" THEN [status |-> r.status, rng |-> r.rng]
    ELSE [status |-> "ok",
          rng |-> r.rng,
          total_exposure |-> GetTotalValue(exposures),
          num_exposures |-> Len(exposures),
          diversification_factor |-> DiversificationFactor(Len(exposures)),
          expected_loss |->
              SumSeq(Tabulate(LAMBDA i : r.risks[i].expected_loss, Len(exposures))),
          unexpected_loss |->
              FloatMul(SumSeq(Tabulate(LAMBDA i : r.risks[i].unexpected_loss,
                                       Len(exposures))),
                       DiversificationFactor(Len(exposures))),
          capital_impact |->
              SumSeq(Tabulate(LAMBDA i : r.risks[i].capital_impact, Len(exposures))),
          individual_risks |-> r.risks,
          concentration |-> CalculateConcentration(r.risks)]

\* calculate_portfolio_risk (lines 454-539) called with the global generator
\* in state rng
CalculatePortfolioRiskFrom(rng, exposures) ==
    CHOOSE out \in
        { PortfolioResult(exposures, r) :
            r \in { IndividualRisks(rng, exposures, GetTotalValue(exposures),
                                    << >>, 1) } } : TRUE

(***************************************************************************)
(* src/core/hazard.py: HazardAssessment                                    *)
(***************************************************************************)
\* a * b for a float a that may be large: the quotient of Mul without the
\* wide intermediate product
MulWide(a, b) == (a \div SCALE) * b + ((a % SCALE) * b) \div SCALE

\* dict.get(key, default) on a function with string keys
Get(d, key, default) == IF key \in DOMAIN d THEN d[key] ELSE default

\* _flood_damage_curve (lines 161-207)
FloodDamageCurve(depth_m, asset_type, construction_type) ==
    LET resilience_factors ==
            [reinforced_concrete |-> 8000, masonry |-> 10000, wood |-> 14000,
             steel |-> 9000, traditional |-> 13000]
        base_damage ==
            IF depth_m <= 0 THEN 0
            ELSE IF depth_m <= 3000 THEN 500 + Mul(1000, Div(depth_m, 3000))
            ELSE IF depth_m <= 10000
            THEN 1500 + Mul(2500, Div(depth_m - 3000, 7000))
            ELSE IF depth_m <= 20000
            THEN 4000 + Mul(3000, Div(depth_m - 10000, 10000))
            ELSE Min(Fx(1),
                     7000 + Mul(1500, Min(Fx(1), Div(depth_m - 20000, 30000))))
    IN  Min(Fx(1), Mul(base_damage, Get(resilience_factors, construction_type, Fx(1))))

\* _wildfire_damage_curve (lines 228-259)
WildfireDamageCurve(burn_percentage, asset_type, construction_type) ==
    LET resilience_factors ==
            [reinforced_concrete |-> 8000, masonry |-> 10000, wood |-> 13000,
             steel |-> 9000]
        burn_ratio == burn_percentage \div 100
    IN  Min(Fx(1), Mul(burn_ratio, Get(resilience_factors, construction_type, Fx(1))))

\* _cyclone_damage_curve (lines 261-312)
CycloneDamageCurve(wind_speed_kmh, asset_type, construction_type) ==
    LET resilience_factors ==
            [reinforced_concrete |-> 7000, masonry |-> 9000, wood |-> 12000,
             steel |-> 8000]
        base_damage ==
            IF wind_speed_kmh < Fx(119)
            THEN 500 + Mul(1000, (wind_speed_kmh - Fx(63)) \div 56)
            ELSE IF wind_speed_kmh < Fx(154)
            THEN 1500 + Mul(1500, (wind_speed_kmh - Fx(119)) \div 35)
            ELSE IF wind_speed_kmh < Fx(178)
            THEN 3000 + Mul(2000, (wind_speed_kmh - Fx(154)) \div 24)
            ELSE IF wind_speed_kmh < Fx(209)
            THEN 5000 + Mul(2000, (wind_speed_kmh - Fx(178)) \div 31)
            ELSE IF wind_speed_kmh < Fx(252)
            THEN 7000 + Mul(2000, (wind_speed_kmh - Fx(209)) \div 43)
            ELSE Min(Fx(1), 9000 + Mul(500, (wind_speed_kmh - Fx(252)) \div 50))
    IN  IF wind_speed_kmh < Fx(63) THEN 0
        ELSE Min(Fx(1),
                 Mul(base_damage, Get(resilience_factors, construction_type, Fx(1))))

\* _drought_damage_curve (lines 314-360)
DroughtDamageCurve(spi_index, asset_type) ==
    IF asset_type \in {"agricultural", "farm"}
    THEN IF spi_index >= 0 - 5000 THEN 0
         ELSE IF spi_index >= 0 - 10000
         THEN 1000 + Div(Mul(1500, Abs(spi_index + 5000)), 5000)
         ELSE IF spi_index >= 0 - 15000
         THEN 2500 + Div(Mul(2500, Abs(spi_index + 10000)), 5000)
         ELSE Min(Fx(1), 5000 + Mul(2500, Abs(spi_index + 15000)))
    ELSE IF spi_index >= 0 - 5000 THEN 0
         ELSE IF spi_index >= 0 - 10000
         THEN 200 + Div(Mul(300, Abs(spi_index + 5000)), 5000)
         ELSE IF spi_index >= 0 - 15000
         THEN 500 + Div(Mul(500, Abs(spi_index + 10000)), 5000)
         ELSE Min(Fx(1), 1000 + Mul(500, Abs(spi_index + 15000)))

\* the keys of self.damage_functions (_initialize_damage_functions, lines
\* 61-68)
DamageFunctions == {"flood", "wildfire", "cyclone", "drought"}

\* the number of positional arguments each damage function accepts after
\* self: the drought curve has no construction_type parameter (line 314-318)
MaxPositional ==
    [flood |-> 3, wildfire |-> 3, cyclone |-> 3, drought |-> 2]

\* damage_func(*args) for the function registered under hazard_type: Python
\* raises TypeError when more positional arguments are passed than the
\* function accepts
CallDamageFunc(hazard_type, args) ==
    IF Len(args) > MaxPositional[hazard_type] THEN [status |-> "TypeError"]
    ELSE [status |-> "ok",
          value |->
              CASE hazard_type = "flood" -> FloodDamageCurve(args[1], args[2], args[3])
                [] hazard_type = "wildfire" ->
                       WildfireDamageCurve(args[1], args[2], args[3])
                [] hazard_type = "cyclone" ->
                       CycloneDamageCurve(args[1], args[2], args[3])
                [] hazard_type = "drought" -> DroughtDamageCurve(args[1], args[2])]

\* _estimate_downtime (lines 362-403): int(base * intensity_factor *
\* asset_factor)
EstimateDowntime(hazard_type, intensity, asset_type) ==
    LET base_downtime_map == [flood |-> 21, wildfire |-> 60, cyclone |-> 30,
                              drought |-> 7]
        asset_factor_map == [residential |-> 10000, commercial |-> 12000,
                             industrial |-> 15000]
        base == Get(base_downtime_map, hazard_type, 14)
        intensity_factor ==
            IF hazard_type = "flood" THEN Fx(1) + intensity \div 2
            ELSE IF hazard_type = "cyclone" THEN intensity \div 150
            ELSE Fx(1)
    IN  MulWide(base * intensity_factor, Get(asset_factor_map, asset_type, Fx(1)))
        \div SCALE

\* assess_hazard (lines 70-120)
AssessHazardResult(hazard_type, intensity, asset_value, asset_type, construction_type) ==
    IF hazard_type \notin DamageFunctions
    THEN [status |-> "ValueError", message |-> "Unknown hazard type",
          hazard_type |-> hazard_type]
    ELSE CHOOSE out \in
             { IF damage.status # "ok" THEN [status |-> damage.status]
               ELSE [status |-> "ok",
                     hazard_type |-> hazard_type,
                     intensity |-> intensity,
                     damage_ratio |-> damage.value,
                     physical_damage |-> Mul(asset_value, damage.value),
                     residual_value |-> asset_value - Mul(asset_value, damage.value),
                     downtime_days |->
                         EstimateDowntime(hazard_type, intensity, asset_type),
                     asset_value |-> asset_value,
                     asset_type |-> asset_type,
                     construction_type |-> construction_type] :
                 damage \in { CallDamageFunc(hazard_type,
                                             << intensity, asset_type,
                                                construction_type >>) } } : TRUE

(***************************************************************************)
(* The state machine.  rng is numpy's global generator, shared by every   *)
(* caller in the process.  engines[e] is the config of the e-th            *)
(* MonteCarloEngine constructed.  log is the history of the calls made on  *)
(* the engines and on the PD simulation, with what each returned; last is  *)
(* the record of the most recent call.  frame holds the local variables   *)
(* of a run_simulation call that is followed statement by statement.      *)
(***************************************************************************)
VARIABLES rng, engines, log, last, frame

vars == << rng, engines, log, last, frame >>

\* the number of calls a history holds
MaxCalls == 3

\* states of a generator nobody has seeded yet (numpy seeds it from the OS)
UnseededStates == {1, 2}

Asset(id, value, beta, damage, pd, lgd) ==
    [asset_id |-> id, value |-> value, climate_beta |-> beta,
     damage_ratio |-> damage, base_pd |-> pd, base_lgd |-> lgd]

AssetA1 == Asset("A1", 2000, 5000, 1000, 200, 4000)

AssetA2 == Asset("A2", 4000, 8000, 0, 500, 4500)

\* a second asset carrying the asset_id of the first
AssetA1Again == Asset("A1", 4000, 8000, 0, 500, 4500)

\* credit exposures: PortfolioAsset objects read by calculate_portfolio_risk
ExposureE1 == Asset("E1", 100000, 5000, 1000, 200, 4000)

ExposureE2 == Asset("E2", 50000, 8000, 0, 500, 4500)

ExposureZero == Asset("Z1", 0, 5000, 1000, 200, 4000)

AssetLists ==
    { << >>, << AssetA1 >>, << AssetA1, AssetA2 >>, << AssetA1, AssetA1Again >> }

\* the asset lists the scenario comparisons run on
ScenarioAssetLists == { << AssetA1 >>, << AssetA1, AssetA2 >> }

SimulationConfig(n_simulations, time_horizon, random_seed) ==
    [n_simulations |-> n_simulations,
     time_horizon |-> time_horizon,
     confidence_level |-> DefaultConfidence,
     random_seed |-> random_seed,
     correlation_factor |-> 3000,
     climate_correlation |-> DefaultClimateCorrelation]

Configs ==
    { SimulationConfig(DefaultNSimulations, 1, DefaultSeed),
      SimulationConfig(DefaultNSimulations, 1, 7),
      SimulationConfig(0, 1, DefaultSeed),
      SimulationConfig(DefaultNSimulations, 0, DefaultSeed) }

ClimateFactors == {1000, 4000}

Scenario(name, climate_factor) == [name |-> name, climate_factor |-> climate_factor]

ScenarioDicts ==
    { << Scenario("baseline", 1000) >>,
      << Scenario("baseline", 1000), Scenario("twin", 1000) >>,
      << Scenario("severe", 4000), Scenario("baseline", 1000) >> }

BasePds == {0, 200, 6000}

BaseLgds == {0, 4000, 10000, 20000}

ClimateBetas == {0, 10000}

DamageRatios == {0, 10000}

Exposures == {0, 100000}

\* (pd_increase_cap, lgd_increase_cap): the defaults, and caps that bind
CapPairs == { << DefaultPdCap, DefaultLgdCap >>, << 12000, 11000 >> }

Models ==
    { ClimateVasicekInit(pd, lgd, beta) :
        pd \in BasePds, lgd \in BaseLgds, beta \in ClimateBetas }

\* the models the PD simulation is called on next to the engines
PdModels == { ClimateVasicekInit(pd, 4000, 5000) : pd \in {0, 200} }

\* n exposures of one value, so of weight 1/n each
EqualExposures(n) ==
    [i \in 1..n |-> Asset(<< "Q1", "Q2", "Q3", "Q4", "Q5", "Q6", "Q7" >>[i],
                          100000, 5000, 1000, 200, 4000)]

ExposureLists ==
    { << >>, << ExposureE1 >>, << ExposureE1, ExposureE2 >>, << ExposureZero >>,
      << ExposureZero, ExposureZero >>,
      EqualExposures(2), EqualExposures(4), EqualExposures(7) }

Init ==
    /\ rng \in UnseededStates
    /\ engines = << >>
    /\ log = << >>
    /\ last = [op |-> "none"]
    /\ frame = [pc |-> "idle"]

\* MonteCarloEngine(config): __init__ seeds the global generator (line 59)
NewEngine(cfg) ==
    /\ Len(log) < MaxCalls
    /\ engines' = Append(engines, cfg)
    /\ rng' = SeedState(cfg.random_seed)
    /\ last' = [op |-> "MonteCarloEngine", engine |-> Len(engines) + 1, config |-> cfg]
    /\ log' = Append(log, last')
    /\ UNCHANGED frame

\* engines[e].run_simulation(assets, climate_factor)
RunSimulation(e, assets, climate_factor) ==
    /\ Len(log) < MaxCalls
    /\ \E r \in { RunSimulationFrom(rng, engines[e], assets, climate_factor,
                                     DefaultHazardType) } :
           /\ rng' = r.rng
           /\ last' = [op |-> "run_simulation", engine |-> e, config |-> engines[e],
                       assets |-> assets, climate_factor |-> climate_factor,
                       result |-> Returned(r)]
    /\ log' = Append(log, last')
    /\ UNCHANGED << engines, frame >>

\* engines[e].run_scenario_comparison(assets, scenarios)
RunScenarioComparison(e, assets, scenarios) ==
    /\ Len(log) < MaxCalls
    /\ \E r \in { RunScenarioComparisonFrom(rng, engines[e], assets, scenarios) } :
           /\ rng' = r.rng
           /\ last' = [op |-> "run_scenario_comparison", engine |-> e,
                       config |-> engines[e], assets |-> assets,
                       scenarios |-> scenarios, result |-> Returned(r)]
    /\ log' = Append(log, last')
    /\ UNCHANGED << engines, frame >>

\* m.calculate_adjusted_pd_monte_carlo(time_horizon, climate_factor,
\*                                     n_simulations, random_seed)
PdMonteCarlo(m, time_horizon, climate_factor, n_simulations, random_seed) ==
    /\ Len(log) < MaxCalls
    /\ \E r \in { PdMonteCarloFrom(rng, m, time_horizon, climate_factor,
                                    n_simulations, random_seed) } :
           /\ rng' = r.rng
           /\ last' = [op |-> "calculate_adjusted_pd_monte_carlo", model |-> m,
                       time_horizon |-> time_horizon,
                       climate_factor |-> climate_factor,
                       n_simulations |-> n_simulations,
                       random_seed |-> random_seed, result |-> Returned(r)]
    /\ log' = Append(log, last')
    /\ UNCHANGED << engines, frame >>

\* m.calculate_climate_adjustment(physical_damage_ratio, pd_increase_cap,
\*                                lgd_increase_cap)
ClimateAdjustment(m, physical_damage_ratio, pd_increase_cap, lgd_increase_cap) ==
    /\ last' = [op |-> "calculate_climate_adjustment", model |-> m,
                physical_damage_ratio |-> physical_damage_ratio,
                pd_increase_cap |-> pd_increase_cap,
                lgd_increase_cap |-> lgd_increase_cap,
                result |-> CalculateClimateAdjustment(m, physical_damage_ratio,
                                                      pd_increase_cap,
                                                      lgd_increase_cap)]
    /\ UNCHANGED << rng, engines, log, frame >>

\* m.run_full_analysis(exposure, time_horizon, physical_damage_ratio)
FullAnalysis(m, exposure, time_horizon, physical_damage_ratio) ==
    /\ \E r \in { RunFullAnalysisFrom(rng, m, exposure, time_horizon,
                                       physical_damage_ratio,
                                       DefaultNSimulations) } :
           /\ rng' = r.rng
           /\ last' = [op |-> "run_full_analysis", model |-> m,
                       exposure |-> exposure, time_horizon |-> time_horizon,
                       physical_damage_ratio |-> physical_damage_ratio,
                       result |-> Returned(r)]
    /\ UNCHANGED << engines, log, frame >>

\* PortfolioRiskCalculator().calculate_portfolio_risk(exposures)
PortfolioRisk(exposures) ==
    /\ \E r \in { CalculatePortfolioRiskFrom(rng, exposures) } :
           /\ rng' = r.rng
           /\ last' = [op |-> "calculate_portfolio_risk", exposures |-> exposures,
                       result |-> Returned(r)]
    /\ UNCHANGED << engines, log, frame >>

\* The engines and the PD simulation, called in any order on one process.
Next ==
    \/ \E cfg \in Configs : NewEngine(cfg)
    \/ \E e \in 1..Len(engines), assets \in AssetLists, cf \in ClimateFactors :
           RunSimulation(e, assets, cf)
    \/ \E e \in 1..Len(engines), assets \in ScenarioAssetLists, sc \in ScenarioDicts :
           RunScenarioComparison(e, assets, sc)
    \/ \E m \in PdModels, seed \in {DefaultSeed, 7} :
           PdMonteCarlo(m, 1, 1000, DefaultNSimulations, seed)

Spec == Init /\ [][Next]_vars

\* The credit-risk calculations, called in any order on one process.
NextCredit ==
    \/ \E m \in Models, d \in DamageRatios, caps \in CapPairs :
           ClimateAdjustment(m, d, caps[1], caps[2])
    \/ \E m \in Models, x \in Exposures, d \in DamageRatios : FullAnalysis(m, x, 1, d)
    \/ \E exposures \in ExposureLists : PortfolioRisk(exposures)

SpecCredit == Init /\ [][NextCredit]_vars

AssetA3 == Asset("A3", 3000, 2000, 500, 300, 5000)

\* asset lists of zero to three assets
CorrelationAssetLists ==
    { << >>, << AssetA1 >>, << AssetA1, AssetA2 >>, << AssetA1, AssetA2, AssetA3 >> }

\* correlation_factor values: 0.3 (the default) and 1.6 give the positive
\* definite matrices with 0.7 and -0.6 off the diagonal for two assets; 0.0
\* gives the singular matrix of ones, -0.5 and 2.5 give 1.5 and -1.5 off the
\* diagonal
CorrelationFactors == {0, 3000, 16000, 0 - 5000, 25000}

CorrelationConfigs ==
    { [SimulationConfig(DefaultNSimulations, 1, DefaultSeed)
          EXCEPT !.correlation_factor = c] : c \in CorrelationFactors }

\* Engines of every correlation_factor, built and run on one process.
NextCorrelation ==
    \/ \E cfg \in CorrelationConfigs : NewEngine(cfg)
    \/ \E e \in 1..Len(engines), assets \in CorrelationAssetLists :
           RunSimulation(e, assets, 1000)

SpecCorrelation == Init /\ [][NextCorrelation]_vars

\* The number of simulations from which the 5% tail holds one return:
\* int(0.05 * 20) = 1.
TailSims == 20

\* an array of n returns: lowest, lowest + spread, ... in a scattered order
ReturnsArray(n, lowest, spread) ==
    Tabulate(LAMBDA i : lowest + spread * ((i * 11) % n), n)

ReturnArrays ==
    { ReturnsArray(n, lowest, spread) :
        n \in {1, TailSims - 1, TailSims, 2 * TailSims},
        lowest \in {0 - 7700, 0 - 3000, 0 - 100, 200},
        spread \in {0, 700} }

ConfidenceLevels == {DefaultConfidence, 9750, 9900}

\* engine._calculate_risk_metrics(returns, initial_values) on an engine whose
\* config has confidence_level
RiskMetrics(returns, initial_value, confidence_level) ==
    /\ last' = [op |-> "_calculate_risk_metrics", returns |-> returns,
                initial_value |-> initial_value,
                confidence_level |-> confidence_level,
                result |-> CalculateRiskMetrics(
                               returns,
                               Tabulate(LAMBDA i : initial_value, Len(returns)),
                               confidence_level)]
    /\ UNCHANGED << rng, engines, log, frame >>

\* m.calculate_expected_loss(exposure, pd, lgd)
ExpectedLoss(m, exposure, pd, lgd) ==
    /\ last' = [op |-> "calculate_expected_loss", model |-> m,
                exposure |-> exposure, pd |-> pd, lgd |-> lgd,
                result |-> CalculateExpectedLoss(exposure, pd, lgd)]
    /\ UNCHANGED << rng, engines, log, frame >>

\* m.calculate_capital_requirement(unexpected_loss, confidence_level, capital_ratio)
CapitalRequirement(unexpected_loss, confidence_level, capital_ratio) ==
    /\ last' = [op |-> "calculate_capital_requirement",
                unexpected_loss |-> unexpected_loss,
                confidence_level |-> confidence_level,
                capital_ratio |-> capital_ratio,
                result |-> CalculateCapitalRequirement(unexpected_loss, confidence_level,
                                                       capital_ratio)]
    /\ UNCHANGED << rng, engines, log, frame >>

\* m.calculate_unexpected_loss(exposure, pd, lgd, correlation); correlation =
\* None is the call without the argument
UnexpectedLoss(m, exposure, pd, lgd, correlation) ==
    /\ last' = [op |-> "calculate_unexpected_loss", model |-> m,
                exposure |-> exposure, pd |-> pd, lgd |-> lgd,
                correlation |-> correlation,
                result |-> CalculateUnexpectedLossWith(m, exposure, pd, lgd,
                                                       correlation)]
    /\ UNCHANGED << rng, engines, log, frame >>

\* engines of two asset correlations: the default 0.3, and 0.5
CorrelationModels ==
    { [ClimateVasicekInit(200, 4000, 5000) EXCEPT !.correlation = rho] :
        rho \in {3000, 5000} }

\* the correlation argument: omitted, 0, 0.3, 1
CorrelationArguments == {None, 0, 3000, 10000}

UnexpectedLosses == {0, 1000, 123456, 500000}

CapitalConfidenceLevels == {5000, 9000, 9500, 9750, 9900, DefaultCapitalConfidence}

LossExposures == {0, 25000, 100000}

LossPds == {0, 200, 10000}

LossLgds == {0, 2500, 10000}

\* The risk metrics of every array of returns.
NextMetrics ==
    \E returns \in ReturnArrays, c \in ConfidenceLevels : RiskMetrics(returns, 6000, c)

SpecMetrics == Init /\ [][NextMetrics]_vars

\* The closed-form loss and capital calculations, called in any order.
NextFormulas ==
    \/ \E m \in PdModels, x \in LossExposures, pd \in LossPds, lgd \in LossLgds :
           ExpectedLoss(m, x, pd, lgd)
    \/ \E ul \in UnexpectedLosses, c \in CapitalConfidenceLevels,
          ratio \in {DefaultCapitalRatio, 1000} :
           CapitalRequirement(ul, c, ratio)
    \/ \E m \in CorrelationModels, x \in {0, 100000}, pd \in {0, 200, 5000, 10000},
          lgd \in LossLgds, rho \in CorrelationArguments :
           UnexpectedLoss(m, x, pd, lgd, rho)

SpecFormulas == Init /\ [][NextFormulas]_vars

\* the models and climate factors the PD simulation is compared over
MonotoneModels == { ClimateVasicekInit(200, 4000, beta) : beta \in ClimateBetas }

PdClimateFactors == {0 - 1000, 1000, 4000}

\* The PD simulation alone, called repeatedly on one process.
NextPd ==
    \E m \in MonotoneModels, cf \in PdClimateFactors, seed \in {DefaultSeed, 7} :
        PdMonteCarlo(m, 1, cf, DefaultNSimulations, seed)

SpecPd == Init /\ [][NextPd]_vars

\* HazardAssessment().assess_hazard(hazard_type, intensity, asset_value,
\* asset_type, construction_type)
AssessHazard(hazard_type, intensity, asset_value, asset_type, construction_type) ==
    /\ last' = [op |-> "assess_hazard", hazard_type |-> hazard_type,
                intensity |-> intensity, asset_value |-> asset_value,
                asset_type |-> asset_type, construction_type |-> construction_type,
                result |-> AssessHazardResult(hazard_type, intensity, asset_value,
                                              asset_type, construction_type)]
    /\ UNCHANGED << rng, engines, log, frame >>

\* the hazard types passed: the four registered ones and three others
HazardTypes ==
    {"flood", "wildfire", "cyclone", "drought", "earthquake", "Flood", ""}

\* intensities in the unit of each hazard: flood depth in metres, burn
\* percentage, wind speed in km/h, SPI
Intensities(hazard_type) ==
    CASE hazard_type \in {"flood", "Flood"} -> {0, 2000, 10000, 15000, 30000, 80000}
      [] hazard_type = "wildfire" -> {0, Fx(25), Fx(50), Fx(100)}
      [] hazard_type = "cyclone" ->
             {Fx(50), Fx(100), Fx(130), Fx(160), Fx(200), Fx(230), Fx(300)}
      [] hazard_type = "drought" -> {0, 0 - 7000, 0 - 12000, 0 - 20000}
      [] OTHER -> {Fx(5)}

\* Assessments of single hazards, called in any order.
NextHazard ==
    \E hazard_type \in HazardTypes, asset_value \in {0, 25000, 100000},
       asset_type \in {"residential", "commercial", "agricultural"},
       construction_type \in {"reinforced_concrete", "wood", "bamboo"} :
        \E intensity \in Intensities(hazard_type) :
            AssessHazard(hazard_type, intensity, asset_value, asset_type,
                         construction_type)

SpecHazard == Init /\ [][NextHazard]_vars

\* engines[e].run_simulation(assets, climate_factor) entered: the arrays are
\* allocated, column 0 is written and L is computed (lines 78-103)
BeginRun(e, assets, climate_factor) ==
    /\ frame.pc = "idle"
    /\ Len(log) < MaxCalls
    /\ frame' = [pc |-> IF engines[e].time_horizon * StepsPerYear >= 1
                       THEN "draw" ELSE "done",
                 engine |-> e,
                 config |-> engines[e],
                 assets |-> assets,
                 climate_factor |-> climate_factor,
                 L |-> CholeskyFactor(Len(assets), engines[e].correlation_factor),
                 step |-> 1,
                 i |-> 1,
                 correlated_shocks |-> << >>,
                 iterations |-> << >>,
                 asset_cols |->
                     << InitAssetColumn(assets, engines[e].n_simulations, << >>, 1) >>,
                 portfolio_cols |->
                     << Tabulate(LAMBDA s : GetTotalValue(assets),
                                 engines[e].n_simulations) >>]
    /\ UNCHANGED << rng, engines, log, last >>

\* the top of the daily loop: z is drawn and correlated_shocks = L @ z.T
\* (lines 106-108)
DrawShocks ==
    /\ frame.pc = "draw"
    /\ rng' = Advance(rng, frame.config.n_simulations * Len(frame.assets))
    /\ frame' = [frame EXCEPT
                   !.pc = "asset",
                   !.i = 1,
                   !.iterations = << >>,
                   !.asset_cols = Append(@, << >>),
                   !.correlated_shocks =
                       [a \in 1..Len(frame.assets) |->
                           [s \in 1..frame.config.n_simulations |->
                               CorrelatedShock(frame.L, rng, Len(frame.assets), a, s)]]]
    /\ UNCHANGED << engines, log, last >>

\* the locals of one pass of the per-asset loop for the correlated shocks
\* corr of the asset (lines 112-154); climate_shock and draw are the two
\* randn(n_sims) vectors of lines 115 and 137
AssetLocals(asset, cfg, climate_factor, time_factor, corr, climate_shock, draw) ==
    [climate_shock |-> climate_shock,
     draw |-> draw,
     market_shock |-> [s \in DOMAIN corr |-> MarketShock(corr[s], time_factor)],
     idiosyncratic_shock |->
         [s \in DOMAIN corr |->
             IdiosyncraticShock(corr[s], cfg.correlation_factor, draw[s])],
     beta_effect |->
         [s \in DOMAIN corr |->
             BetaEffect(asset.climate_beta, climate_factor, time_factor,
                        climate_shock[s])],
     total_shock |->
         [s \in DOMAIN corr |->
             TotalShock(asset, cfg, climate_factor, time_factor, corr[s],
                        climate_shock[s], draw[s])]]

\* the position after the pass of asset i of n_assets
AfterAsset(i, n_assets) == IF i >= n_assets THEN "portfolio" ELSE "asset"

\* one pass of the per-asset loop (lines 110-161) for asset frame.i
UpdateAsset ==
    /\ frame.pc = "asset"
    /\ \E n \in { frame.config.n_simulations } :
       \E asset \in { frame.assets[frame.i] } :
       \E locals \in
           { AssetLocals(asset, frame.config, frame.climate_factor,
                         TimeFactor(frame.step,
                                    frame.config.time_horizon * StepsPerYear),
                         frame.correlated_shocks[frame.i],
                         Randn(rng, n), Randn(Advance(rng, n), n)) } :
           /\ rng' = Advance(rng, 2 * n)
           /\ frame' = [frame EXCEPT
                          !.pc = AfterAsset(frame.i, Len(frame.assets)),
                          !.i = @ + 1,
                          !.iterations = Append(@, locals),
                          !.asset_cols[frame.step + 1] =
                              (asset.asset_id :>
                                   [s \in 1..n |->
                                       UpdatedValue(
                                           frame.asset_cols[frame.step][asset.asset_id][s],
                                           locals.total_shock[s])])
                              @@ @]
    /\ UNCHANGED << engines, log, last >>

\* the portfolio column of the step, written after the per-asset loop (lines
\* 163-168)
UpdatePortfolio ==
    /\ frame.pc = "portfolio"
    /\ frame' = [frame EXCEPT
                   !.pc = IF frame.step >= frame.config.time_horizon * StepsPerYear
                          THEN "done" ELSE "draw",
                   !.step = @ + 1,
                   !.portfolio_cols =
                       Append(@, PortfolioColumn(frame.assets,
                                                 frame.asset_cols[frame.step + 1],
                                                 frame.config.n_simulations))]
    /\ UNCHANGED << rng, engines, log, last >>

\* after the loop: the statistics are computed and the dictionary returned
\* (lines 170-212)
FinishRun ==
    /\ frame.pc = "done"
    /\ \E r \in { SimulationResult(
                      frame.config, frame.climate_factor, DefaultHazardType,
                      [rng |-> rng, asset_cols |-> frame.asset_cols,
                       portfolio_cols |-> frame.portfolio_cols],
                      Returns(frame.portfolio_cols, frame.config.n_simulations)) } :
           last' = [op |-> "run_simulation", engine |-> frame.engine,
                    config |-> frame.config, assets |-> frame.assets,
                    climate_factor |-> frame.climate_factor,
                    result |-> Returned(r)]
    /\ log' = Append(log, last')
    /\ frame' = [pc |-> "idle"]
    /\ UNCHANGED << rng, engines >>

\* a second asset with the climate_beta of AssetA1
AssetB1 == Asset("B1", 4000, 5000, 0, 500, 4500)

StepAssetLists ==
    { << AssetA1 >>, << AssetA1, AssetB1 >>, << AssetA1, AssetA2 >>,
      << AssetA1, AssetA1Again >> }

StepConfigs ==
    { SimulationConfig(DefaultNSimulations, 1, DefaultSeed),
      SimulationConfig(DefaultNSimulations, 1, 7) }

\* One process that builds engines and runs simulations, each run followed
\* statement by statement.
NextSteps ==
    \/ \E cfg \in StepConfigs : frame.pc = "idle" /\ NewEngine(cfg)
    \/ \E e \in 1..Len(engines), assets \in StepAssetLists, cf \in ClimateFactors :
           BeginRun(e, assets, cf)
    \/ DrawShocks
    \/ UpdateAsset
    \/ UpdatePortfolio
    \/ FinishRun

SpecSteps == Init /\ [][NextSteps]_vars

(***************************************************************************)
(* Properties                                                              *)
(***************************************************************************)
Calls(op) == { i \in 1..Len(log) : log[i].op = op }

RECURSIVE SumOver(_, _)
SumOver(f, S) ==
    IF S = {} THEN 0
    ELSE LET x == CHOOSE y \in S : TRUE IN f[x] + SumOver(f, S \ {x})

UniqueIds(assets) == Cardinality(AssetIds(assets)) = Len(assets)

SameRunInputs(a, b) ==
    /\ a.config = b.config
    /\ a.assets = b.assets
    /\ a.climate_factor = b.climate_factor

\* C1: any two run_simulation calls with the same config, the same asset list
\* and the same climate_factor return the same result, whatever was called
\* before each of them.
C1_RunsReproducible ==
    \A i \in Calls("run_simulation"), j \in Calls("run_simulation") :
        SameRunInputs(log[i], log[j]) => log[i].result = log[j].result

SamePdInputs(a, b) ==
    /\ a.model = b.model
    /\ a.time_horizon = b.time_horizon
    /\ a.climate_factor = b.climate_factor
    /\ a.n_simulations = b.n_simulations
    /\ a.random_seed = b.random_seed

\* C2: any two calls of calculate_adjusted_pd_monte_carlo with the same model
\* parameters, time_horizon, climate_factor, n_simulations and random_seed
\* return the same paths and statistics, whatever was called between them.
C2_PdSeededInsideCall ==
    \A i \in Calls("calculate_adjusted_pd_monte_carlo"),
       j \in Calls("calculate_adjusted_pd_monte_carlo") :
        SamePdInputs(log[i], log[j]) => log[i].result = log[j].result

\* C2's case: two PD simulations with the same inputs, and between them a call
\* that reseeds or advances the global generator.
C2_Witness ==
    \E i \in Calls("calculate_adjusted_pd_monte_carlo"),
       j \in Calls("calculate_adjusted_pd_monte_carlo") :
        /\ i + 1 < j
        /\ SamePdInputs(log[i], log[j])
        /\ \/ log[i + 1].op = "MonteCarloEngine"
           \/ /\ log[i + 1].op = "calculate_adjusted_pd_monte_carlo"
              /\ log[i + 1].random_seed # log[i].random_seed

\* what engine E returns from run_simulation called right after E is built
Undisturbed(cfg, assets, climate_factor) ==
    Returned(RunSimulationFrom(SeedState(cfg.random_seed), cfg, assets,
                               climate_factor, DefaultHazardType))

\* C3: when only constructions of other engines and PD simulations happen
\* between the construction of an engine and its run_simulation, the run
\* returns what it returns with nothing in between.
C3_NoSharedState ==
    \A i \in Calls("MonteCarloEngine"), k \in Calls("run_simulation") :
        ( /\ i < k
          /\ log[k].engine = log[i].engine
          /\ \A j \in (i + 1)..(k - 1) :
                 log[j].op \in {"MonteCarloEngine", "calculate_adjusted_pd_monte_carlo"} )
        => log[k].result =
               Undisturbed(log[i].config, log[k].assets, log[k].climate_factor)

\* C4: in run_scenario_comparison a scenario's summary depends only on the
\* assets, the config and its climate_factor: scenarios with the same
\* climate_factor, in one comparison or in two comparisons of the same assets
\* under the same config, get the same summary.
C4_SummaryDependsOnlyOnFactor ==
    \A i \in Calls("run_scenario_comparison"), j \in Calls("run_scenario_comparison") :
        ( /\ log[i].result.status = "ok"
          /\ log[j].result.status = "ok"
          /\ log[i].config = log[j].config
          /\ log[i].assets = log[j].assets )
        => \A a \in 1..Len(log[i].scenarios), b \in 1..Len(log[j].scenarios) :
               log[i].scenarios[a].climate_factor = log[j].scenarios[b].climate_factor
               => log[i].result.results[log[i].scenarios[a].name]
                  = log[j].result.results[log[j].scenarios[b].name]

\* C5: every value of the PD paths returned by
\* calculate_adjusted_pd_monte_carlo, column 0 included, lies in
\* [0.0001, 0.9999].
C5_PdPathsWithinBounds ==
    \A i \in Calls("calculate_adjusted_pd_monte_carlo") :
        \A t \in 1..Len(log[i].result.monte_carlo_paths) :
            \A sim \in 1..Len(log[i].result.monte_carlo_paths[t]) :
                /\ log[i].result.monte_carlo_paths[t][sim] >= PdMin
                /\ log[i].result.monte_carlo_paths[t][sim] <= PdMax

\* C6: for base_pd in (0,1), base_lgd in (0,1], climate_beta in [0,1] and
\* physical_damage_ratio in [0,1], calculate_climate_adjustment returns
\* adjusted_pd and adjusted_lgd in (0,1].
C6_AdjustedWithinUnitInterval ==
    ( /\ last.op = "calculate_climate_adjustment"
      /\ 0 < last.model.base_pd /\ last.model.base_pd < Fx(1)
      /\ 0 < last.model.base_lgd /\ last.model.base_lgd <= Fx(1)
      /\ 0 <= last.model.climate_beta /\ last.model.climate_beta <= Fx(1)
      /\ 0 <= last.physical_damage_ratio /\ last.physical_damage_ratio <= Fx(1) )
    => /\ 0 < last.result.adjusted_pd /\ last.result.adjusted_pd <= Fx(1)
       /\ 0 < last.result.adjusted_lgd /\ last.result.adjusted_lgd <= Fx(1)

\* C7: run_full_analysis with exposure = 0, base_pd = 0 or base_lgd = 0 does
\* not raise and reports both increase percentages as 0.
C7_ZeroDenominatorsGuarded ==
    ( /\ last.op = "run_full_analysis"
      /\ (last.exposure = 0 \/ last.model.base_pd = 0 \/ last.model.base_lgd = 0) )
    => /\ last.result.status = "ok"
       /\ last.result.expected_loss.increase_percentage = 0
       /\ last.result.unexpected_loss.increase_percentage = 0

\* C8: calculate_portfolio_risk on a non-empty list whose values sum to 0 does
\* not raise and reports every weight and the HHI as 0.
C8_ZeroTotalExposureGuarded ==
    ( /\ last.op = "calculate_portfolio_risk"
      /\ last.exposures # << >>
      /\ GetTotalValue(last.exposures) = 0 )
    => /\ last.result.status = "ok"
       /\ \A i \in 1..Len(last.result.individual_risks) :
              last.result.individual_risks[i].weight = 0
       /\ last.result.concentration.hhi = 0

\* the exceptions input validation raises
ValidationErrors == {"ValueError", "ValidationError"}

InvalidRunInputs(c) ==
    \/ c.assets = << >>
    \/ c.config.n_simulations < 1
    \/ c.config.time_horizon < 1

\* C9: run_simulation with an empty asset list, n_simulations < 1 or
\* time_horizon < 1 ends with a validation error; it returns no result, so
\* none with a NaN or an infinity in it.
C9_InvalidInputsRejected ==
    \A i \in Calls("run_simulation") :
        InvalidRunInputs(log[i]) => log[i].result.status \in ValidationErrors

\* C10: for unique asset_ids, every entry of portfolio_paths is the sum of
\* the entries of asset_paths of all asset_ids at that step and simulation
\* index; at step 0 each asset's path is its input value and the portfolio
\* path is the sum of the input values.
C10_PortfolioIsSumOfAssets ==
    \A i \in Calls("run_simulation") :
        (log[i].result.status = "ok" /\ UniqueIds(log[i].assets))
        => LET r == log[i].result
               n_steps == log[i].config.time_horizon * StepsPerYear
           IN  /\ Len(r.portfolio_paths) = n_steps + 1
               /\ Len(r.asset_paths) = n_steps + 1
               /\ \A t \in 1..(n_steps + 1), sim \in 1..log[i].config.n_simulations :
                      /\ DOMAIN r.asset_paths[t] = AssetIds(log[i].assets)
                      /\ r.portfolio_paths[t][sim]
                         = SumOver([id \in AssetIds(log[i].assets) |->
                                       r.asset_paths[t][id][sim]],
                                   AssetIds(log[i].assets))
               /\ \A sim \in 1..log[i].config.n_simulations :
                      /\ r.portfolio_paths[1][sim] = GetTotalValue(log[i].assets)
                      /\ \A a \in 1..Len(log[i].assets) :
                             r.asset_paths[1][log[i].assets[a].asset_id][sim]
                             = log[i].assets[a].value

\* C10's case: a run over two assets with different ids that simulated at
\* least one step and moved the portfolio off its initial value.
C10_Witness ==
    \E i \in Calls("run_simulation") :
        /\ log[i].result.status = "ok"
        /\ Len(log[i].assets) = 2
        /\ UniqueIds(log[i].assets)
        /\ Len(log[i].result.portfolio_paths) > 1
        /\ \E sim \in 1..log[i].config.n_simulations :
               log[i].result.portfolio_paths[2][sim]
               # log[i].result.portfolio_paths[1][sim]

\* the inputs of two PD simulations agree in everything but climate_factor
SameButClimateFactor(a, b) ==
    /\ a.model = b.model
    /\ a.time_horizon = b.time_horizon
    /\ a.n_simulations = b.n_simulations
    /\ a.random_seed = b.random_seed

\* C11: for climate_beta in [0,1], of two calls of
\* calculate_adjusted_pd_monte_carlo that differ only in climate_factor, the
\* one with the larger climate_factor returns a stressed_pd at least as large.
C11_StressedPdMonotone ==
    \A i \in Calls("calculate_adjusted_pd_monte_carlo"),
       j \in Calls("calculate_adjusted_pd_monte_carlo") :
        ( /\ SameButClimateFactor(log[i], log[j])
          /\ 0 <= log[i].model.climate_beta /\ log[i].model.climate_beta <= Fx(1)
          /\ log[i].climate_factor <= log[j].climate_factor )
        => log[i].result.stressed_pd <= log[j].result.stressed_pd

\* C11's case: two PD simulations of one model and seed, the second with a
\* larger climate_factor and a strictly larger stressed_pd.
C11_Witness ==
    \E i \in Calls("calculate_adjusted_pd_monte_carlo"),
       j \in Calls("calculate_adjusted_pd_monte_carlo") :
        /\ SameButClimateFactor(log[i], log[j])
        /\ log[i].model.climate_beta > 0
        /\ log[i].climate_factor < log[j].climate_factor
        /\ log[i].result.stressed_pd < log[j].result.stressed_pd

\* the run_simulation calls made right after an engine was constructed: the
\* generator is in the state the constructor's seed gives
FreshRuns == { k \in Calls("run_simulation") : k > 1 /\ log[k - 1].op = "MonteCarloEngine" }

\* the matrix with 1 on the diagonal and o elsewhere is positive definite:
\* its eigenvalues 1 - o and 1 + (n - 1) * o are positive
FlatPositiveDefinite(n, o) == Fx(1) - o > 0 /\ Fx(1) + (n - 1) * o > 0

\* the lower-triangular factor of that matrix for n = 2 and n = 3, in closed
\* form
FlatCholesky(n, o) ==
    LET l22 == Sqrt(Fx(1) - Mul(o, o))
        l32 == Div(o - Mul(o, o), l22)
        l33 == Sqrt(Fx(1) - (Mul(l32, l32) + Mul(o, o)))
    IN  IF n = 2
        THEN << << Fx(1), 0 >>, << o, l22 >> >>
        ELSE << << Fx(1), 0, 0 >>, << o, l22, 0 >>, << o, l32, l33 >> >>

\* the factor the shocks are to be multiplied by
ExpectedFactor(n, correlation_factor) ==
    IF n = 0 THEN << >>
    ELSE IF n = 1 THEN << << Fx(1) >> >>
    ELSE IF FlatPositiveDefinite(n, Fx(1) - correlation_factor)
         THEN FlatCholesky(n, Fx(1) - correlation_factor)
         ELSE Eye(n)

C15_SingleAssetIgnoresCorrelation ==
    \A k \in FreshRuns :
        Len(log[k].assets) = 1
        => \A c \in CorrelationFactors :
               \E r \in { RunSimulationFrom(
                               SeedState(log[k - 1].config.random_seed),
                               [log[k].config EXCEPT !.correlation_factor = c],
                               log[k].assets, log[k].climate_factor,
                               DefaultHazardType) } :
                   /\ log[k].result.asset_paths = r.asset_paths
                   /\ log[k].result.portfolio_paths = r.portfolio_paths

\* the worst 5% of an array of returns: its int(0.05 * n) lowest entries
WorstTail(returns) == SubSeq(Sort(returns), 1, (5 * Len(returns)) \div 100)

AllEqual(a) == \A i \in 1..Len(a), j \in 1..Len(a) : a[i] = a[j]

\* C13: at confidence_level 0.95, for returns whose 5% tail is not empty and
\* not all equal, value_at_risk_dollar <= expected_shortfall_dollar.
C13_VarDollarAtMostEsDollar ==
    ( /\ last.op = "_calculate_risk_metrics"
      /\ last.confidence_level = DefaultConfidence
      /\ WorstTail(last.returns) # << >>
      /\ ~AllEqual(WorstTail(last.returns)) )
    => /\ last.result.status = "ok"
       /\ last.result.value_at_risk_dollar <= last.result.expected_shortfall_dollar

\* C14: for n >= 1 returns, expected_shortfall is a finite number, the mean
\* of the worst 5% of the returns, the same under every confidence_level, and
\* value_at_risk is the return at sorted position
\* floor((1 - confidence_level) * n).
C14_ExpectedShortfallDefined ==
    ( /\ last.op = "_calculate_risk_metrics"
      /\ Len(last.returns) >= 1 )
    => /\ last.result.status = "ok"
       /\ IsFinite(last.result.expected_shortfall)
       /\ last.result.expected_shortfall = Mean(WorstTail(last.returns))
       /\ \A c \in ConfidenceLevels :
              CalculateRiskMetrics(last.returns,
                                   Tabulate(LAMBDA i : last.initial_value,
                                            Len(last.returns)),
                                   c).expected_shortfall
              = last.result.expected_shortfall
       /\ last.result.value_at_risk
          = Sort(last.returns)[((Fx(1) - last.confidence_level) * Len(last.returns))
                               \div SCALE + 1]

\* the z-score of a confidence level: 1.28, 1.645, 2.33, 3.09 for 0.90, 0.95,
\* 0.99, 0.999 and 3.09 for any other level
RecognizedLevels == {9000, 9500, 9900, 9990}

TableZ(level) ==
    IF level = 9000 THEN 12800
    ELSE IF level = 9500 THEN 16450
    ELSE IF level = 9900 THEN 23300
    ELSE 30900

C20_ExpectedLossClosedForm ==
    ( /\ last.op = "calculate_expected_loss"
      /\ last.exposure >= 0
      /\ 0 <= last.pd /\ last.pd <= Fx(1)
      /\ 0 <= last.lgd /\ last.lgd <= Fx(1) )
    => last.result = (((last.exposure * last.pd) \div SCALE) * last.lgd) \div SCALE

\* C20's case: an expected loss of a positive exposure with pd and lgd other
\* than the engine's own base_pd and base_lgd, and lgd below 1.
C20_Witness ==
    /\ last.op = "calculate_expected_loss"
    /\ last.exposure > 0
    /\ last.pd > 0 /\ last.pd # last.model.base_pd
    /\ last.lgd > 0 /\ last.lgd < Fx(1) /\ last.lgd # last.model.base_lgd
    /\ last.result > 0

\* C16: calculate_climate_adjustment returns
\* pd_multiplier = min(pd_cap, 1 + climate_beta * d),
\* lgd_multiplier = min(lgd_cap, 1 + 0.5 * d) and
\* climate_factor = climate_beta * d; for d = 0 both multipliers are 1.0 and
\* climate_factor is 0.0 whatever climate_beta is.
C16_AdjustmentFormulas ==
    last.op = "calculate_climate_adjustment"
    => /\ last.result.pd_multiplier
          = Min(last.pd_increase_cap,
                Fx(1) + (last.model.climate_beta * last.physical_damage_ratio) \div SCALE)
       /\ last.result.lgd_multiplier
          = Min(last.lgd_increase_cap,
                Fx(1) + (5000 * last.physical_damage_ratio) \div SCALE)
       /\ last.result.climate_factor
          = (last.model.climate_beta * last.physical_damage_ratio) \div SCALE
       /\ last.physical_damage_ratio = 0
          => /\ last.result.pd_multiplier = Fx(1)
             /\ last.result.lgd_multiplier = Fx(1)
             /\ last.result.climate_factor = 0

\* C16's case: an adjustment for a positive damage ratio whose two
\* multipliers are both held down by their caps.
C16_Witness ==
    /\ last.op = "calculate_climate_adjustment"
    /\ last.physical_damage_ratio > 0
    /\ last.model.climate_beta > 0
    /\ last.result.pd_multiplier = last.pd_increase_cap
    /\ last.result.pd_multiplier
       < Fx(1) + (last.model.climate_beta * last.physical_damage_ratio) \div SCALE
    /\ last.result.lgd_multiplier = last.lgd_increase_cap
    /\ last.result.lgd_multiplier < Fx(1) + (5000 * last.physical_damage_ratio) \div SCALE

\* the stressed_pd the PD simulation of an analysis returns: the call seeds
\* the generator itself, so the state it is called in does not matter
SimulatedStressedPd(c) ==
    PdMonteCarloFrom(0, c.model, c.time_horizon,
                     c.result.climate_adjustment.climate_factor,
                     DefaultNSimulations, DefaultSeed).stressed_pd

\* C18: run_full_analysis computes the base EL and UL from (base_pd,
\* base_lgd), the stressed EL and UL from the simulation's stressed_pd and the
\* adjustment's adjusted_lgd, and additional = stressed - base for both.
C18_StressedFromSimulation ==
    (last.op = "run_full_analysis" /\ last.result.status = "ok")
    => \E spd \in { SimulatedStressedPd(last) } :
           /\ last.result.pd_analysis.stressed_pd = spd
           /\ last.result.expected_loss.base
              = CalculateExpectedLoss(last.exposure, last.model.base_pd,
                                      last.model.base_lgd)
           /\ last.result.expected_loss.stressed
              = CalculateExpectedLoss(last.exposure, spd,
                                      last.result.climate_adjustment.adjusted_lgd)
           /\ last.result.unexpected_loss.base
              = CalculateUnexpectedLoss(last.model, last.exposure,
                                        last.model.base_pd, last.model.base_lgd)
           /\ last.result.unexpected_loss.stressed
              = CalculateUnexpectedLoss(last.model, last.exposure, spd,
                                        last.result.climate_adjustment.adjusted_lgd)
           /\ last.result.expected_loss.additional
              = last.result.expected_loss.stressed - last.result.expected_loss.base
           /\ last.result.unexpected_loss.additional
              = last.result.unexpected_loss.stressed - last.result.unexpected_loss.base

\* C18's case: an analysis of a positive exposure whose simulated stressed_pd
\* is not the adjustment's adjusted_pd, and whose stressed EL is not the one
\* adjusted_pd would give.
C18_Witness ==
    /\ last.op = "run_full_analysis"
    /\ last.result.status = "ok"
    /\ last.exposure > 0
    /\ last.physical_damage_ratio > 0
    /\ last.result.pd_analysis.stressed_pd # last.result.climate_adjustment.adjusted_pd
    /\ last.result.expected_loss.stressed
       # CalculateExpectedLoss(last.exposure,
                               last.result.climate_adjustment.adjusted_pd,
                               last.result.climate_adjustment.adjusted_lgd)

C21_UnexpectedLossFormula ==
    last.op = "calculate_unexpected_loss"
    => \E rho \in { IF last.correlation = None THEN last.model.correlation
                     ELSE last.correlation } :
           /\ last.result
              = (((last.exposure
                   * Sqrt((((last.pd * ((last.lgd * last.lgd) \div SCALE)) \div SCALE)
                           * (Fx(1) - last.pd)) \div SCALE)) \div SCALE)
                 * Sqrt(rho)) \div SCALE
           /\ last.result >= 0
           /\ ( /\ last.exposure > 0
                /\ 0 < last.pd /\ last.pd < Fx(1)
                /\ last.lgd > 0
                /\ rho > 0 )
              => last.result > 0

\* C21's case: a positive unexpected loss under the engine's own correlation,
\* and a call that passes correlation = 0 and gets 0.
C21_Witness ==
    /\ last.op = "calculate_unexpected_loss"
    /\ last.exposure > 0 /\ last.pd = 200 /\ last.lgd = 2500
    /\ \/ last.correlation = 0 /\ last.result = 0
       \/ last.correlation = None /\ last.model.correlation = 5000 /\ last.result > 0

\* the run_full_analysis result of exposure x on its own: a 10-year horizon
\* and the default simulation count and seed
OwnAnalysis(x) ==
    RunFullAnalysisFrom(1, ClimateVasicekInit(x.base_pd, x.base_lgd, x.climate_beta),
                        x.value, 10, x.damage_ratio, DefaultNSimulations)

\* the factor f of n exposures: 1 for one, sqrt(1/n + (n-1)/n * 0.3) for more
FactorOf(n) ==
    IF n = 1 THEN SCALE
    ELSE Sqrt((SCALE * SCALE) \div (n * SCALE)
              + ((((n - 1) * SCALE * SCALE) \div (n * SCALE)) * 3000) \div SCALE)

\* C22: calculate_portfolio_risk returns one individual_risks entry per
\* exposure, in input order, holding the additional losses and capital of one
\* run_full_analysis of that exposure over a 10-year horizon; unexpected_loss
\* is the sum of the entries' unexpected losses times f, and expected_loss and
\* capital_impact are the plain sums.
C22_PortfolioAggregation ==
    (last.op = "calculate_portfolio_risk" /\ last.result.status = "ok"
     /\ last.exposures # << >>)
    => \E xs \in { last.exposures } : \E risks \in { last.result.individual_risks } :
           /\ Len(risks) = Len(xs)
           /\ \A i \in 1..Len(xs) :
                  \E a \in { OwnAnalysis(xs[i]) } :
                      /\ risks[i].exposure_id = xs[i].asset_id
                      /\ risks[i].value = xs[i].value
                      /\ risks[i].expected_loss = a.expected_loss.additional
                      /\ risks[i].unexpected_loss = a.unexpected_loss.additional
                      /\ risks[i].capital_impact = a.capital.additional
           /\ last.result.diversification_factor = FactorOf(Len(xs))
           /\ last.result.unexpected_loss
              = (SumOver([i \in 1..Len(xs) |-> risks[i].unexpected_loss], 1..Len(xs))
                 * FactorOf(Len(xs))) \div SCALE
           /\ last.result.expected_loss
              = SumOver([i \in 1..Len(xs) |-> risks[i].expected_loss], 1..Len(xs))
           /\ last.result.capital_impact
              = SumOver([i \in 1..Len(xs) |-> risks[i].capital_impact], 1..Len(xs))

\* C22's case: a portfolio of two different exposures whose unexpected loss is
\* reduced by the factor.
C22_Witness ==
    /\ last.op = "calculate_portfolio_risk" /\ last.result.status = "ok"
    /\ last.exposures = << ExposureE1, ExposureE2 >>
    /\ last.result.diversification_factor < SCALE
    /\ last.result.unexpected_loss # 0
    /\ last.result.individual_risks[1].unexpected_loss
       # last.result.individual_risks[2].unexpected_loss

\* the portfolio results whose exposures all have a positive value
PositivePortfolio ==
    /\ last.op = "calculate_portfolio_risk" /\ last.result.status = "ok"
    /\ last.exposures # << >>
    /\ \A i \in 1..Len(last.exposures) : last.exposures[i].value > 0

\* weights are value / total_exposure, hhi is the sum of their squares, and
\* the level follows the thresholds 0.25 and 0.15
WeightsAndLevel(xs, r) ==
    /\ \A i \in 1..Len(xs) :
           r.individual_risks[i].weight
           = (xs[i].value * SCALE) \div r.total_exposure
    /\ r.concentration.hhi
       = SumOver([i \in 1..Len(xs) |->
                     (r.individual_risks[i].weight * r.individual_risks[i].weight)
                     \div SCALE], 1..Len(xs))
    /\ r.concentration.concentration_level
       = IF r.concentration.hhi > 2500 THEN "high"
         ELSE IF r.concentration.hhi > 1500 THEN "medium" ELSE "low"
    /\ (Len(xs) = 2 /\ xs[1].value = xs[2].value)
       => (r.concentration.hhi = 5000 /\ r.concentration.concentration_level = "high")

\* the sum of the reported weights
WeightSum(xs, r) ==
    SumOver([i \in 1..Len(xs) |-> r.individual_risks[i].weight], 1..Len(xs))

\* C23 as stated: for exposures of positive value the weights are
\* value / total_exposure and sum to exactly 1, hhi is the sum of the squared
\* weights, and the level is "high" above 0.25, "medium" above 0.15 and "low"
\* otherwise; two equal weights give hhi = 0.5 and "high".
C23_WeightsSumToOne ==
    PositivePortfolio
    => /\ WeightsAndLevel(last.exposures, last.result)
       /\ WeightSum(last.exposures, last.result) = SCALE

\* C23, amended: the same, with the weights summing to 1 up to the rounding of
\* each quotient (one unit of the last place per exposure).
C23_WeightsSumToOneRounded ==
    PositivePortfolio
    => /\ WeightsAndLevel(last.exposures, last.result)
       /\ WeightSum(last.exposures, last.result) <= SCALE
       /\ WeightSum(last.exposures, last.result) >= SCALE - Len(last.exposures)

\* C23's case: two exposures of equal value, reported with hhi = 0.5 and
\* "high".
C23_Witness ==
    /\ PositivePortfolio
    /\ Len(last.exposures) = 2
    /\ last.exposures[1].value = last.exposures[2].value
    /\ last.result.concentration.hhi = 5000
    /\ last.result.concentration.concentration_level = "high"

\* the fraction of the entries of returns strictly below threshold
StrictFraction(returns, threshold) ==
    (Cardinality({ i \in 1..Len(returns) : returns[i] < threshold }) * SCALE)
    \div Len(returns)

\* C24: the four loss probabilities are the fractions of returns strictly
\* below 0, -0.25, -0.5 and -0.75; each is in [0,1], and they do not increase
\* from probability_of_loss to probability_of_75pct_loss.
C24_LossProbabilities ==
    (last.op = "_calculate_risk_metrics" /\ last.result.status = "ok")
    => \E r \in { last.result } :
           /\ r.probability_of_loss = StrictFraction(last.returns, 0)
           /\ r.probability_of_25pct_loss = StrictFraction(last.returns, 0 - 2500)
           /\ r.probability_of_50pct_loss = StrictFraction(last.returns, 0 - 5000)
           /\ r.probability_of_75pct_loss = StrictFraction(last.returns, 0 - 7500)
           /\ \A p \in { r.probability_of_loss, r.probability_of_25pct_loss,
                          r.probability_of_50pct_loss, r.probability_of_75pct_loss } :
                  0 <= p /\ p <= SCALE
           /\ r.probability_of_loss >= r.probability_of_25pct_loss
           /\ r.probability_of_25pct_loss >= r.probability_of_50pct_loss
           /\ r.probability_of_50pct_loss >= r.probability_of_75pct_loss

\* C24's case: returns on both sides of every threshold, one of them exactly
\* 0, with four different probabilities.
C24_Witness ==
    /\ last.op = "_calculate_risk_metrics" /\ last.result.status = "ok"
    /\ \E i \in 1..Len(last.returns) : last.returns[i] = 0
    /\ last.result.probability_of_loss > last.result.probability_of_25pct_loss
    /\ last.result.probability_of_25pct_loss > last.result.probability_of_50pct_loss
    /\ last.result.probability_of_50pct_loss > last.result.probability_of_75pct_loss
    /\ last.result.probability_of_75pct_loss > 0
    /\ last.result.probability_of_loss < SCALE

\* C29: in run_full_analysis with physical_damage_ratio >= 0, whenever
\* stressed_pd >= base_pd the stressed unexpected loss is at least the base
\* one, so unexpected_loss.additional, capital.additional and
\* summary.capital_increase are not negative.
C29_StressedUlAboveBase ==
    ( /\ last.op = "run_full_analysis" /\ last.result.status = "ok"
      /\ last.physical_damage_ratio >= 0
      /\ last.result.pd_analysis.stressed_pd >= last.model.base_pd )
    => /\ last.result.unexpected_loss.stressed >= last.result.unexpected_loss.base
       /\ last.result.unexpected_loss.additional >= 0
       /\ last.result.capital.additional >= 0
       /\ last.result.summary.capital_increase >= 0

\* C30: for every non-empty asset list, duplicate asset_ids included, a run
\* returns one value path per input asset, each starting at its asset's
\* value, and the portfolio value at every step is the sum of those paths.
C30_OnePathPerAsset ==
    \A i \in Calls("run_simulation") :
        (log[i].result.status = "ok" /\ log[i].assets # << >>)
        => \E r \in { log[i].result } :
               \A t \in 1..Len(r.portfolio_paths),
                  sim \in 1..log[i].config.n_simulations :
                   /\ Cardinality(DOMAIN r.asset_paths[t]) = Len(log[i].assets)
                   /\ \A a \in 1..Len(log[i].assets) :
                          r.asset_paths[1][log[i].assets[a].asset_id][sim]
                          = log[i].assets[a].value
                   /\ r.portfolio_paths[t][sim]
                      = SumOver([id \in DOMAIN r.asset_paths[t] |->
                                    r.asset_paths[t][id][sim]],
                                DOMAIN r.asset_paths[t])

\* C28: assess_hazard returns a damage record with physical_damage =
\* asset_value * damage_ratio and residual_value = asset_value -
\* physical_damage for each of flood, wildfire, cyclone and drought, and raises
\* ValueError "Unknown hazard type" for every other hazard_type.
C28_FourHazardsAssessed ==
    last.op = "assess_hazard"
    => IF last.hazard_type \in {"flood", "wildfire", "cyclone", "drought"}
       THEN /\ last.result.status = "ok"
            /\ last.result.physical_damage
               = (last.asset_value * last.result.damage_ratio) \div SCALE
            /\ last.result.residual_value
               = last.asset_value - last.result.physical_damage
       ELSE /\ last.result.status = "ValueError"
            /\ last.result.message = "Unknown hazard type"

\* a run followed statement by statement is inside the per-asset loop or has
\* just left it
InStep == frame.pc \in {"asset", "portfolio"} /\ frame.iterations # << >>

\* C25: the idiosyncratic shock of an asset at a step is an independently
\* redrawn value scaled only by sqrt(1 - correlation_factor) * sqrt(dt) * 0.05;
\* it does not depend on the step's correlated shock.
C25_IdiosyncraticIndependent ==
    InStep
    => \A a \in 1..Len(frame.iterations), s \in 1..frame.config.n_simulations :
           frame.iterations[a].idiosyncratic_shock[s]
           = FloatMul(FloatMul(FloatMul(FloatSqrt(Fx(1) - frame.config.correlation_factor),
                                        SqrtDt), 500),
                      frame.iterations[a].draw[s])

\* C26: one climate-shock vector is drawn per step and shared by all assets:
\* within a step and a simulation index, two assets with the same climate_beta
\* receive the same beta_effect.
C26_SharedClimateShock ==
    InStep
    => \A a \in 1..Len(frame.iterations), b \in 1..Len(frame.iterations) :
           /\ frame.iterations[a].climate_shock = frame.iterations[b].climate_shock
           /\ frame.assets[a].climate_beta = frame.assets[b].climate_beta
              => frame.iterations[a].beta_effect = frame.iterations[b].beta_effect

\* C27: the steps are processed in order.  The value an asset gets at step t
\* is its value at step t-1, for the same simulation index, times
\* (1 + total_shock); the portfolio column of step t is written only when
\* every asset has its step-t value, and no step-(t+1) value exists before
\* the portfolio column of step t does.
C27_StepsInOrder ==
    frame.pc # "idle"
    => /\ \A t \in 1..Len(frame.portfolio_cols) :
              /\ t <= Len(frame.asset_cols)
              /\ DOMAIN frame.asset_cols[t] = AssetIds(frame.assets)
       /\ Len(frame.asset_cols) <= Len(frame.portfolio_cols) + 1
       /\ Len(frame.portfolio_cols) \in {frame.step, frame.step + 1}
       /\ InStep
          => \E a \in { Len(frame.iterations) } :
             \E t \in { Len(frame.asset_cols) } :
                 \A s \in 1..frame.config.n_simulations :
                     frame.asset_cols[t][frame.assets[a].asset_id][s]
                     = FloatMul(frame.asset_cols[t - 1][frame.assets[a].asset_id][s],
                                FloatAdd(Fx(1), frame.iterations[a].total_shock[s]))

\* C27's case: the second step of a run over two assets, the first asset
\* updated and the second not yet, the value moved by the shock.
C27_Witness ==
    /\ frame.pc = "asset"
    /\ frame.step = 2
    /\ Len(frame.assets) = 2 /\ UniqueIds(frame.assets)
    /\ Len(frame.iterations) = 1
    /\ Len(frame.portfolio_cols) = 2
    /\ \E s \in 1..frame.config.n_simulations :
           frame.asset_cols[3][frame.assets[1].asset_id][s]
           # frame.asset_cols[2][frame.assets[1].asset_id][s]

====
